---- MODULE Spec2Model ----
(***************************************************************************)
(* PWA2Native: the icon pipeline of the packager.                          *)
(*                                                                         *)
(*   manifest icons -> download_icons -> get_icon_for_size ->              *)
(*   per-platform transforms (Android, macOS, iOS, Windows)                *)
(*                                                                         *)
(* Two implementations live in the repository: the package                 *)
(* (src/pwa2native/...) and the standalone script (src/pwa2native.py).     *)
(* Their packager objects hold the same fields, and __init__,              *)
(* fetch_manifest, _parse_manifest, download_icons and get_icon_for_size   *)
(* are the same code in both, so one state models either object; where the *)
(* two differ (the package_* methods, main) each has its own action.       *)
(***************************************************************************)
EXTENDS Integers, Sequences, FiniteSets, TLC

VARIABLES
    url,                \* PWAPackager.url (trailing slash stripped)
    manifest,           \* what the server answers for <url>/manifest.json
    icons,              \* PWAPackager.icons: sequence of descriptors
    background_color,   \* PWAPackager.background_color
    fs,                 \* files of <output_dir>/icons: path -> content
    requests,           \* URLs handed to requests.get by download_icons, in order
    out,                \* files of the platform output directories: path -> content
    pc,                 \* position of the run
    last,               \* what the last operation called on the packager did
    main                \* cli.main: the platforms asked for, the position in the
                        \* list, what happened to each platform so far

vars == <<url, manifest, icons, background_color, fs, requests, out, pc, last, main>>

----------------------------------------------------------------------------
(* Bounds of the model *)

\* the longest list of platforms given to cli.main
MaxPlatforms == 2

MaxIcons == 2

MaxPackageIcons == 2

\* the largest of the small sizes the Android transform is asked for
MaxSize == 8

----------------------------------------------------------------------------
(* Python values *)

\* Python's None / a key that a dict does not hold
None == "<None>"

\* dict.get(key, default)
Get(value, default) == IF value = None THEN default ELSE value

\* `not s` for a str-or-None value
Falsy(s) == s = None \/ s = ""

Char(s, i) == SubSeq(s, i, i)

Digits == {"0", "1", "2", "3", "4", "5", "6", "7", "8", "9"}

DigitVal(c) ==
    CASE c = "0" -> 0 [] c = "1" -> 1 [] c = "2" -> 2 [] c = "3" -> 3
      [] c = "4" -> 4 [] c = "5" -> 5 [] c = "6" -> 6 [] c = "7" -> 7
      [] c = "8" -> 8 [] c = "9" -> 9

\* index of the first occurrence of character c in s, 0 when there is none
IndexOf(s, c) ==
    IF \E i \in 1..Len(s) : Char(s, i) = c
    THEN CHOOSE i \in 1..Len(s) :
            /\ Char(s, i) = c
            /\ \A j \in 1..(i - 1) : Char(s, j) # c
    ELSE 0

\* index of the last occurrence of character c in s, 0 when there is none
LastIndexOf(s, c) ==
    IF \E i \in 1..Len(s) : Char(s, i) = c
    THEN CHOOSE i \in 1..Len(s) :
            /\ Char(s, i) = c
            /\ \A j \in (i + 1)..Len(s) : Char(s, j) # c
    ELSE 0

\* s.split(c)[0]
SplitFirst(s, c) ==
    IF IndexOf(s, c) = 0 THEN s ELSE SubSeq(s, 1, IndexOf(s, c) - 1)

\* s.startswith(p)
StartsWith(s, p) == Len(s) >= Len(p) /\ SubSeq(s, 1, Len(p)) = p

\* s.lstrip(c) and s.rstrip(c) for a one-character c
RECURSIVE LStrip(_, _)
LStrip(s, c) ==
    IF Len(s) > 0 /\ Char(s, 1) = c THEN LStrip(SubSeq(s, 2, Len(s)), c) ELSE s

RECURSIVE RStrip(_, _)
RStrip(s, c) ==
    IF Len(s) > 0 /\ Char(s, Len(s)) = c
    THEN RStrip(SubSeq(s, 1, Len(s) - 1), c)
    ELSE s

\* int(tok) succeeds: a non-empty run of decimal digits
\* (optional sign, surrounding blanks and underscores are not in the inputs)
IntParses(tok) ==
    /\ Len(tok) > 0
    /\ \A i \in 1..Len(tok) : Char(tok, i) \in Digits

\* int(tok) for a tok that parses
RECURSIVE ParseInt(_)
ParseInt(tok) ==
    IF Len(tok) = 0 THEN 0
    ELSE 10 * ParseInt(SubSeq(tok, 1, Len(tok) - 1)) + DigitVal(Char(tok, Len(tok)))

Abs(n) == IF n < 0 THEN -n ELSE n

\* pathlib: Path(src).suffix, the extension of the last path component
PathName(src) == SubSeq(src, LastIndexOf(src, "/") + 1, Len(src))

Suffix(src) ==
    LET name == PathName(src)
        i    == LastIndexOf(name, ".")
    IN  IF 1 < i /\ i < Len(name) THEN SubSeq(name, i, Len(name)) ELSE ""

----------------------------------------------------------------------------
(* Inputs: what the manifest may advertise and how each download may end *)

\* `src` values of a manifest icon entry (None: the entry has no src)
SrcInputs == {None, "/a.png", "b"}

\* `sizes` values of a manifest icon entry (None: the entry has no sizes)
SizesInputs == {None, "48x48", "144x144", "any"}

IconEntries == [src : SrcInputs, sizes : SizesInputs]

RECURSIVE SeqsUpTo(_, _)
SeqsUpTo(S, n) ==
    IF n = 0 THEN {<<>>}
    ELSE LET shorter == SeqsUpTo(S, n - 1)
         IN  shorter \cup {Append(q, e) : q \in {r \in shorter : Len(r) = n - 1}, e \in S}

Catalogs == SeqsUpTo(IconEntries, MaxIcons)

\* manifest `background_color` (None: the manifest does not set the key)
ColorInputs == {None, "#112233", "tomato soup"}

\* the URL given on the command line
UrlInputs == {"https://h/"}

\* the answers of the server to GET <url>/manifest.json
Manifests(catalogs, colors) ==
    [status : {"ok"}, icons : catalogs, background_color : colors]
      \cup [status : {"http_error"}, icons : {<<>>}, background_color : {None}]

\* how one icon download ends
\*   ok          status 200, the whole body is written, the body is an image
\*   not_image   status 200, the whole body is written, the body is no image
\*   http_error  status other than 200
\*   net_exc     requests.get raises
\*   open_exc    open(icon_path, 'wb') raises, the file is not touched
\*   write_exc   iter_content or f.write raises after the file was opened
Outcomes == {"ok", "not_image", "http_error", "net_exc", "open_exc", "write_exc"}

SuccessOutcomes == {"ok", "not_image"}

----------------------------------------------------------------------------
(* IconProcessor.download_icons / PWAPackager._download_icons *)

EmptyFs == <<>>

\* a file system that refuses to write over an existing file
KeepFirst(files, path, content) ==
    IF path \in DOMAIN files THEN files ELSE (path :> content) @@ files

\* open(path, 'wb') and the writes after it: the file is created or replaced
Put(files, path, content) == (path :> content) @@ files

\* Path(packager.output_dir) / "icons"
icons_dir == "dist/icons"

\* icon_url = src if src.startswith('http') else f"{url}/{src.lstrip('/')}"
icon_url(base, src) ==
    IF StartsWith(src, "http") THEN src ELSE base \o "/" \o LStrip(src, "/")

\* icons_dir / f"icon_{size}{ext}"
icon_path(icon) ==
    LET size == SplitFirst(Get(icon.sizes, "unknown"), "x")
        ext  == IF Suffix(icon.src) = "" THEN ".png" ELSE Suffix(icon.src)
    IN  icons_dir \o "/icon_" \o size \o ext

\* a narrower handler, `except requests.RequestException`, lets the errors
\* of open() and of the write loop leave download_icons
ExceptRequestException(exc) == exc = "net_exc"

\* `except Exception as e` around the handling of one icon
ExceptException(exc) == TRUE

\* the body of the for loop for descriptor i, its download ending as o
DownloadOne(st, i, o) ==
    LET icon == st.icons[i]
        src  == icon.src
        req  == [st EXCEPT !.requests = Append(@, icon_url(url, src))]
        path == icon_path(icon)
        exc(s) == IF ExceptException(o) THEN s ELSE [s EXCEPT !.raised = TRUE]
    IN  IF Falsy(src) THEN st
        ELSE CASE o = "net_exc"    -> exc(req)
               [] o = "http_error" -> req
               [] o = "open_exc"   -> exc(req)
               [] o = "write_exc"  ->
                    exc([req EXCEPT !.fs = Put(@, path,
                            [from |-> i, body |-> "partial", image |-> FALSE])])
               [] o \in SuccessOutcomes ->
                    [req EXCEPT
                        !.fs = Put(@, path,
                            [from |-> i, body |-> "complete", image |-> (o = "ok")]),
                        !.icons[i].local_path = path]

RECURSIVE DownloadFrom(_, _, _)
DownloadFrom(st, i, outcomes) ==
    IF i > Len(st.icons) \/ st.raised THEN st
    ELSE DownloadFrom(DownloadOne(st, i, outcomes[i]), i + 1, outcomes)

download_icons(catalog, files, outcomes) ==
    LET st == [icons |-> catalog, fs |-> files, requests |-> <<>>, raised |-> FALSE]
    IN  IF Len(catalog) = 0 THEN st ELSE DownloadFrom(st, 1, outcomes)

\* a descriptor without src is never downloaded: its outcome is irrelevant
OutcomeVectors(catalog) ==
    {v \in [1..Len(catalog) -> Outcomes] :
        \A i \in 1..Len(catalog) : Falsy(catalog[i].src) => v[i] = "ok"}

----------------------------------------------------------------------------
(* PWAPackager.__init__, fetch_manifest, _parse_manifest *)

\* the icons array of the manifest as the list of dicts the packager holds
RECURSIVE Descriptors(_)
Descriptors(entries) ==
    IF Len(entries) = 0 THEN <<>>
    ELSE <<[src |-> entries[1].src, sizes |-> entries[1].sizes, local_path |-> None]>>
            \o Descriptors(Tail(entries))

\* a packager that starts from black
BlackColor == "#000000"

\* the background color of a packager that has parsed no manifest, and of a
\* manifest without background_color
DefaultColor == "#FFFFFF"

\* the state of cli.main where main is not running
NoMain == [platforms |-> <<>>, i |-> 0, log |-> <<>>, returned |-> FALSE]

\* PWAPackager.__init__
Constructed ==
    /\ main = NoMain
    /\ url \in {RStrip(u, "/") : u \in UrlInputs}
    /\ icons = <<>>
    /\ background_color = DefaultColor
    /\ fs = EmptyFs
    /\ requests = <<>>
    /\ out = EmptyFs
    /\ pc = "new"
    /\ last = [op |-> "init"]

Init ==
    /\ manifest \in Manifests(Catalogs, {None})
    /\ Constructed

\* fetch_manifest with the manifest unavailable: returns False
FetchManifestFails ==
    /\ pc = "new"
    /\ manifest.status # "ok"
    /\ pc' = "nofetch"
    /\ last' = [op |-> "fetch_manifest", ok |-> FALSE]
    /\ UNCHANGED <<main, url, manifest, icons, background_color, fs, requests, out>>

\* which descriptors download_icons fetched with success
Succeeded(catalog, outcomes) ==
    [i \in 1..Len(catalog) |->
        ~Falsy(catalog[i].src) /\ outcomes[i] \in SuccessOutcomes]

\* fetch_manifest, _parse_manifest and the download_icons call that ends it
FetchManifest ==
    /\ pc = "new"
    /\ manifest.status = "ok"
    /\ \E outcomes \in OutcomeVectors(manifest.icons) :
         LET dl == download_icons(Descriptors(manifest.icons), fs, outcomes)
         IN  /\ icons' = dl.icons
             /\ fs' = dl.fs
             /\ requests' = dl.requests
             /\ background_color' = Get(manifest.background_color, DefaultColor)
             /\ pc' = IF dl.raised THEN "nofetch" ELSE "ready"
             /\ last' = [op |-> "fetch_manifest", ok |-> ~dl.raised,
                         succeeded |-> Succeeded(manifest.icons, outcomes)]
    /\ UNCHANGED <<main, url, manifest, out>>

----------------------------------------------------------------------------
(* IconProcessor.get_icon_for_size / PWAPackager.get_icon_for_size *)

\* float('inf')
Inf == -1

Less(diff, best) == best = Inf \/ diff < best

\* the body of the for loop for one descriptor; int() of a width that is no
\* number raises ValueError and ends the call
SelectOne(acc, icon, target_size) ==
    IF icon.local_path = None \/ icon.sizes = None THEN acc
    ELSE LET tok == SplitFirst(icon.sizes, "x")
         IN  IF ~IntParses(tok) THEN [acc EXCEPT !.raised = "ValueError"]
             ELSE LET size_diff == Abs(ParseInt(tok) - target_size)
                  IN  IF Less(size_diff, acc.best_size_diff)
                      THEN [acc EXCEPT !.best_size_diff = size_diff,
                                       !.best_icon = icon.local_path]
                      ELSE acc

RECURSIVE SelectFrom(_, _, _, _)
SelectFrom(acc, catalog, i, target_size) ==
    IF i > Len(catalog) \/ acc.raised # None THEN acc
    ELSE SelectFrom(SelectOne(acc, catalog[i], target_size), catalog, i + 1, target_size)

\* the call's outcome: [best_icon: the value returned, raised: None or the
\* exception that left the call]
get_icon_for_size(catalog, target_size) ==
    LET acc == SelectFrom([best_icon |-> None, best_size_diff |-> Inf, raised |-> None],
                          catalog, 1, target_size)
    IN  [best_icon |-> IF acc.raised = None THEN acc.best_icon ELSE None,
         raised |-> acc.raised]

\* the target sizes asked for
TargetInputs == {48, 96, 100, 512}

\* a selection that takes the local paths out of the catalog it searched
SelectAndForget ==
    /\ pc = "ready"
    /\ \E t \in TargetInputs :
         last' = [op |-> "get_icon_for_size", target |-> t,
                  ret |-> get_icon_for_size(icons, t)]
    /\ icons' = [i \in 1..Len(icons) |-> [icons[i] EXCEPT !.local_path = None]]
    /\ UNCHANGED <<main, url, manifest, background_color, fs, requests, out, pc>>

\* get_icon_for_size(target_size) called on the packager: the catalog is read
GetIconForSize ==
    /\ pc = "ready"
    /\ \E t \in TargetInputs :
         last' = [op |-> "get_icon_for_size", target |-> t,
                  ret |-> get_icon_for_size(icons, t)]
    /\ UNCHANGED <<main, url, manifest, icons, background_color, fs, requests, out, pc>>

----------------------------------------------------------------------------
(* IconProcessor.process_android_icon / PWAPackager._process_android_icon *)

HexDigits == Digits \cup {"a", "b", "c", "d", "e", "f", "A", "B", "C", "D", "E", "F"}

HexVal(c) ==
    CASE c \in Digits -> DigitVal(c)
      [] c \in {"a", "A"} -> 10 [] c \in {"b", "B"} -> 11 [] c \in {"c", "C"} -> 12
      [] c \in {"d", "D"} -> 13 [] c \in {"e", "E"} -> 14 [] c \in {"f", "F"} -> 15

\* PIL's ImageColor.getrgb accepts the color string: the "#rrggbb" form
\* (color names and the other notations are not in the inputs)
ValidColor(color) ==
    /\ color # None
    /\ Len(color) = 7
    /\ Char(color, 1) = "#"
    /\ \A i \in 2..7 : Char(color, i) \in HexDigits

\* the RGBA pixel Image.new('RGBA', size, color) fills the canvas with
ColorPixel(color) ==
    LET byte(i) == 16 * HexVal(Char(color, i)) + HexVal(Char(color, i + 1))
    IN  <<byte(2), byte(4), byte(6), 255>>

\* Image.open(source_icon) and the first decode succeed: the file exists and
\* holds the whole body of an image
ValidSource(files, source_icon) ==
    /\ source_icon \in DOMAIN files
    /\ files[source_icon].body = "complete"
    /\ files[source_icon].image

\* a content side of half the canvas
HalfSize(size) == size \div 2

\* int(size * 0.75)
FittedSize(size) == (3 * size) \div 4

\* a directory argument as the callee receives it: a pathlib.Path or a str
AsPath(p) == [kind |-> "Path", path |-> p]
AsStr(p) == [kind |-> "str", path |-> p]

\* mipmap_dir / name: defined for a Path, TypeError for a str
CanJoin(dir) == dir.kind = "Path"

\* The transform of one density.  `fail` is the save (1 foreground,
\* 2 background, 3 composite) that the file system refuses, 0 for none.
\* Returns the boolean and the files written, in order.
process_android_icon(files, source_icon, mipmap_dir, size, color, fail) ==
    LET from == files[source_icon].from
        file(layer) ==
            [path |-> mipmap_dir.path \o "/" \o
                        (CASE layer = "foreground" -> "ic_launcher_foreground.png"
                           [] layer = "background" -> "ic_launcher_background.png"
                           [] layer = "composite"  -> "ic_launcher.png"),
             content |-> [layer |-> layer, size |-> size, from |-> from,
                          color |-> IF layer = "foreground" THEN None ELSE color]]
    IN  IF ~ValidSource(files, source_icon) \/ FittedSize(size) < 1
            THEN [ret |-> FALSE, files |-> <<>>]
        ELSE IF ~CanJoin(mipmap_dir) \/ fail = 1
            THEN [ret |-> FALSE, files |-> <<>>]
        ELSE IF ~ValidColor(color) \/ fail = 2
            THEN [ret |-> FALSE, files |-> <<file("foreground")>>]
        ELSE IF fail = 3
            THEN [ret |-> FALSE, files |-> <<file("foreground"), file("background")>>]
        ELSE [ret |-> TRUE,
              files |-> <<file("foreground"), file("background"), file("composite")>>]

\* the script falls back to white: self.background_color or "#FFFFFF"
ScriptColor(color) == IF Falsy(color) THEN DefaultColor ELSE color

RECURSIVE PutAll(_, _)
PutAll(files, written) ==
    IF Len(written) = 0 THEN files
    ELSE PutAll(Put(files, written[1].path, written[1].content), Tail(written))

----------------------------------------------------------------------------
(* The pixels of the Android layers.  An image is [w, h, px]: px[x][y] is *)
(* the RGBA pixel at column x and row y, 0 <= x < w and 0 <= y < h.       *)

Columns(w) == 0..(w - 1)

Rows(h) == 0..(h - 1)

\* Image.new(mode, (w, h), pixel)
ImageNew(w, h, pixel) ==
    [w |-> w, h |-> h, px |-> [x \in Columns(w) |-> [y \in Rows(h) |-> pixel]]]

\* the decoded source images: an opaque 2x2 image and a 3x2 image whose left
\* column is fully transparent; every pixel has its own color, none black
SourceImages ==
    {[w |-> 2, h |-> 2,
      px |-> [x \in Columns(2) |-> [y \in Rows(2) |-> <<200, 10 + x, 20 + y, 255>>]]],
     [w |-> 3, h |-> 2,
      px |-> [x \in Columns(3) |-> [y \in Rows(2) |->
                <<100, 10 + x, 20 + y, IF x = 0 THEN 0 ELSE 255>>]]]}

\* ImageOps.fit(img, (f, f), LANCZOS): the centered square crop of img scaled
\* to f x f; each output pixel takes the source pixel it falls on
Fit(img, f) ==
    LET c == IF img.w < img.h THEN img.w ELSE img.h
        left == (img.w - c) \div 2
        top == (img.h - c) \div 2
    IN  [w |-> f, h |-> f,
         px |-> [x \in Columns(f) |-> [y \in Rows(f) |->
                   img.px[left + (x * c) \div f][top + (y * c) \div f]]]]

\* canvas.paste(img, (ox, oy)): the box is overwritten, alpha included
Paste(canvas, img, ox, oy) ==
    [w |-> canvas.w, h |-> canvas.h,
     px |-> [x \in Columns(canvas.w) |-> [y \in Rows(canvas.h) |->
               IF x - ox \in Columns(img.w) /\ y - oy \in Rows(img.h)
               THEN img.px[x - ox][y - oy]
               ELSE canvas.px[x][y]]]]

\* a mask that hides nothing
FullMask(size) == [x \in Columns(size) |-> [y \in Rows(size) |-> 255]]

\* Image.new('L', (size, size), 0) with draw.ellipse([0, 0, size, size],
\* fill=255): 255 on the pixels of the disc inscribed in the box from (0, 0)
\* to (size, size), 0 elsewhere
EllipseMask(size) ==
    [x \in Columns(size) |-> [y \in Rows(size) |->
        IF (2 * x - size) * (2 * x - size) + (2 * y - size) * (2 * y - size)
             <= size * size
        THEN 255 ELSE 0]]

\* img.putalpha(mask): the alpha band is replaced by the mask
PutAlpha(img, mask) ==
    [w |-> img.w, h |-> img.h,
     px |-> [x \in Columns(img.w) |-> [y \in Rows(img.h) |->
               <<img.px[x][y][1], img.px[x][y][2], img.px[x][y][3], mask[x][y]>>]]]

\* one pixel of Image.alpha_composite over an opaque destination
Blend(dst, src) ==
    LET a == src[4]
        band(i) == (src[i] * a + dst[i] * (255 - a)) \div 255
    IN  <<band(1), band(2), band(3), 255>>

\* Image.alpha_composite(dst, src)
AlphaComposite(dst, src) ==
    [w |-> dst.w, h |-> dst.h,
     px |-> [x \in Columns(dst.w) |-> [y \in Rows(dst.h) |->
               Blend(dst.px[x][y], src.px[x][y])]]]

\* the foreground layer of process_android_icon
AndroidForeground(source, size) ==
    LET img == Fit(source, FittedSize(size))
        foreground == ImageNew(size, size, <<0, 0, 0, 0>>)
        offset == (size - img.w) \div 2
    IN  PutAlpha(Paste(foreground, img, offset, offset), EllipseMask(size))

\* the background layer
AndroidBackground(size, color) == ImageNew(size, size, ColorPixel(color))

\* the pixels of one layer that process_android_icon saved
LayerImage(layer, source, size, color) ==
    CASE layer = "foreground" -> AndroidForeground(source, size)
      [] layer = "background" -> AndroidBackground(size, color)
      [] layer = "composite"  ->
            AlphaComposite(AndroidBackground(size, color), AndroidForeground(source, size))

----------------------------------------------------------------------------
(* package_android *)

\* densities / mipmap_densities, in the order the dict is iterated
Densities == <<[density |-> "mdpi", size |-> 48],
               [density |-> "hdpi", size |-> 72],
               [density |-> "xhdpi", size |-> 96],
               [density |-> "xxhdpi", size |-> 144],
               [density |-> "xxxhdpi", size |-> 192]>>

android_dir == "dist/android"

res_dir == android_dir \o "/app/src/main/res"

mipmap_dir(density) == res_dir \o "/mipmap-" \o density

\* where one save of the fan-out fails: <<0, 0>> nowhere, <<k, stage>> at
\* output k
SaveFailures(outputs, stages) == {<<0, 0>>} \cup ((1..outputs) \X (1..stages))

FailStage(fail, k) == IF fail[1] = k THEN fail[2] ELSE 0

\* the log entry of one transform of a fan-out
FanEntry(role, size, source, r) ==
    [role |-> role, size |-> size, source |-> source, ret |-> r.ret, files |-> r.files]

\* AndroidPackager._process_android_icon: one transform per density, each
\* given str(output_path) where the transform expects the mipmap directory
RECURSIVE PkgProcessAndroidIcon(_, _, _)
PkgProcessAndroidIcon(icon, fail, k) ==
    IF k > Len(Densities) THEN <<>>
    ELSE LET d == Densities[k]
             output_path == mipmap_dir(d.density) \o "/ic_launcher.png"
             r == process_android_icon(fs, icon, AsStr(output_path), d.size,
                                       background_color, FailStage(fail, k))
         IN  <<FanEntry(d.density, d.size, icon, r)>>
                \o PkgProcessAndroidIcon(icon, fail, k + 1)

\* the selection package_android makes in the package: once, for 512
PkgAndroidSelect == get_icon_for_size(icons, 512)

RECURSIVE FanFiles(_)
FanFiles(fan) == IF Len(fan) = 0 THEN <<>> ELSE fan[1].files \o FanFiles(Tail(fan))

RECURSIVE FanLog(_)
FanLog(fan) ==
    IF Len(fan) = 0 THEN <<>>
    ELSE <<[role |-> fan[1].role, size |-> fan[1].size,
            source |-> fan[1].source, ret |-> fan[1].ret]>> \o FanLog(Tail(fan))

\* what a package_* call leaves behind for the observer
\*   icon        the icon the method selected (None: none)
\*   fan         the transforms attempted, in order
\*   fail        the save failure injected into the fan-out
\*   tool        how the external packing tool ended (None: not run)
\*   calls       the calls the icon conversion made, in order
\*   staged      the files the icon conversion put into its staging directory
\*   fan_raised  the exception that left the icon fan-out (None: none)
\*   caught      the exception the method caught and printed (None: none)
\*   raised      the exception that left the method (None: none)
\*   warned      the warnings the method printed
\*   source_size the pixel width and height of the selected image, where the
\*               method's output depends on it (0: it does not)
Packaged(platform, variant, icon, fan, fail, fan_raised, caught, raised) ==
    [op |-> platform, impl |-> variant, icon |-> icon, fan |-> FanLog(fan),
     fail |-> IF Len(fan) = 0 THEN <<0, 0>> ELSE fail,
     tool |-> None, calls |-> <<>>, staged |-> {},
     fan_raised |-> fan_raised, caught |-> caught, raised |-> raised,
     warned |-> {}, source_size |-> 0]

\* a text file a packager writes from a template or a literal; the templates
\* are package data of the distribution (setup.py) and taken as installed
ProjectFile(path) == [path |-> path, content |-> [layer |-> "project"]]

\* how subprocess.run(['gradle', 'wrapper'], check=True) ends
GradleOutcomes == {"ok", "CalledProcessError", "FileNotFoundError"}

\* _create_gradle_files: the gradle files, local.properties when the
\* environment names an Android SDK
CreateGradleFiles(android_sdk) ==
    <<ProjectFile(android_dir \o "/build.gradle"),
      ProjectFile(android_dir \o "/settings.gradle"),
      ProjectFile(android_dir \o "/gradle.properties"),
      ProjectFile(android_dir \o "/app/build.gradle"),
      ProjectFile(android_dir \o "/app/proguard-rules.pro")>>
        \o (IF android_sdk THEN <<ProjectFile(android_dir \o "/local.properties")>>
            ELSE <<>>)

\* _create_gradle_wrapper: both errors of the tool are caught and printed as
\* a warning; the tool, when it runs, leaves the wrapper script
CreateGradleWrapper(gradle) ==
    [files |-> IF gradle = "ok" THEN <<ProjectFile(android_dir \o "/gradlew")>> ELSE <<>>,
     warned |-> IF gradle = "ok" THEN {} ELSE {"Could not create Gradle wrapper"}]

\* _process_android_templates
ProcessAndroidTemplates ==
    <<ProjectFile(android_dir \o "/app/src/main/java/com/pwa/wrapper/MainActivity.java"),
      ProjectFile(android_dir \o "/app/src/main/AndroidManifest.xml")>>

\* the environments of package_android, one deviation at a time: a refused
\* save, a failure of gradle, or an SDK named by the environment
AndroidEnvs ==
    {<<fail, "ok", FALSE>> : fail \in SaveFailures(Len(Densities), 3)}
        \cup {<<<<0, 0>>, gradle, FALSE>> : gradle \in GradleOutcomes}
        \cup {<<<<0, 0>>, "ok", TRUE>>}

\* AndroidPackager.package_android: the gradle files and the wrapper, then
\* the icon, then the templates; every exception is caught and printed
PackageAndroidPkg ==
    /\ pc = "ready"
    /\ \E env \in AndroidEnvs :
         LET sel == PkgAndroidSelect
             gradle == env[2]
             android_sdk == env[3]
             wrapper == CreateGradleWrapper(gradle)
             structure == CreateGradleFiles(android_sdk) \o wrapper.files
         IN  IF sel.raised # None
             THEN /\ last' = [Packaged("package_android", "pkg", sel.best_icon, <<>>,
                                       <<0, 0>>, None, sel.raised, None)
                                EXCEPT !.tool = gradle, !.warned = wrapper.warned]
                  /\ out' = PutAll(out, structure)
             ELSE IF sel.best_icon = None
             THEN /\ last' = [Packaged("package_android", "pkg", sel.best_icon, <<>>,
                                       <<0, 0>>, None, None, None)
                                EXCEPT !.tool = gradle, !.warned = wrapper.warned]
                  /\ out' = PutAll(out, structure \o ProcessAndroidTemplates)
             ELSE LET fail == env[1]
                      fan == PkgProcessAndroidIcon(sel.best_icon, fail, 1)
                  IN  /\ out' = PutAll(out, structure \o FanFiles(fan)
                                              \o ProcessAndroidTemplates)
                      /\ last' = [Packaged("package_android", "pkg", sel.best_icon, fan,
                                           fail, None, None, None)
                                    EXCEPT !.tool = gradle, !.warned = wrapper.warned]
    /\ pc' = "packaged"
    /\ UNCHANGED <<main, url, manifest, icons, background_color, fs, requests>>

\* PWAPackager.package_android of the script: one selection and one transform
\* per density; nothing is caught, a ValueError of the selection leaves
\* package_android at once
RECURSIVE ScriptAndroidFan(_, _)
ScriptAndroidFan(fail, k) ==
    IF k > Len(Densities) THEN [fan |-> <<>>, raised |-> None]
    ELSE LET d == Densities[k]
             sel == get_icon_for_size(icons, d.size)
         IN  IF sel.raised # None THEN [fan |-> <<>>, raised |-> sel.raised]
             ELSE LET rest == ScriptAndroidFan(fail, k + 1)
                  IN  IF sel.best_icon = None THEN rest
                      ELSE LET r == process_android_icon(fs, sel.best_icon,
                                        AsPath(mipmap_dir(d.density)), d.size,
                                        ScriptColor(background_color), FailStage(fail, k))
                           IN  [rest EXCEPT !.fan =
                                    <<FanEntry(d.density, d.size, sel.best_icon, r)>> \o @]

\* _generate_android_files of the script
GenerateAndroidFiles ==
    <<ProjectFile(android_dir \o "/build.gradle"),
      ProjectFile(android_dir \o "/app/build.gradle"),
      ProjectFile(android_dir \o "/settings.gradle"),
      ProjectFile(android_dir \o "/gradle.properties"),
      ProjectFile(android_dir \o "/app/src/main/AndroidManifest.xml"),
      ProjectFile(android_dir \o "/app/src/main/java/com/pwa/wrapper/MainActivity.java")>>

\* package_android of the script: the icons density by density, then the
\* build files; nothing is caught
PackageAndroidScript ==
    /\ pc = "ready"
    /\ \E fail \in SaveFailures(Len(Densities), 3) :
         LET run == ScriptAndroidFan(fail, 1)
             fan == run.fan
         IN  /\ out' = PutAll(out, FanFiles(fan)
                            \o (IF run.raised = None THEN GenerateAndroidFiles ELSE <<>>))
             /\ last' = Packaged("package_android", "script",
                                 IF Len(fan) = 0 THEN None ELSE fan[1].source,
                                 fan, fail, None, None, run.raised)
    /\ pc' = "packaged"
    /\ UNCHANGED <<main, url, manifest, icons, background_color, fs, requests>>

----------------------------------------------------------------------------
(* One call of the Android transform, observed pixel by pixel *)

\* the sizes the transform is asked for: the small ones and the densities'
TransformSizes == (1..MaxSize) \cup {Densities[k].size : k \in 1..Len(Densities)}

\* the downloaded icons a caller can hand to the transform
LocalPaths == {icons[i].local_path : i \in 1..Len(icons)} \ {None}

\* a save that refuses to replace a file
SaveExclusive(existing, path) == path \notin DOMAIN existing

\* img.save(path): the file is created, or replaced if it exists
ImageSave(existing, path) == TRUE

\* the outcome of a transform in a directory that holds `existing`
Saving(existing, r) ==
    IF \A k \in 1..Len(r.files) : ImageSave(existing, r.files[k].path)
    THEN r ELSE [ret |-> FALSE, files |-> <<>>]

\* what one call leaves behind: its arguments, the boolean it returned, the
\* files it wrote and the decoded pixels of every file it saved
Transformed(variant, source_icon, source, size, color, fail, r) ==
    [op |-> "process_android_icon", impl |-> variant, source_icon |-> source_icon,
     source |-> source, size |-> size, color |-> color, fail |-> fail,
     ret |-> r.ret, written |-> r.files,
     images |-> [layer \in {r.files[k].content.layer : k \in 1..Len(r.files)} |->
                    LayerImage(layer, source, size, color)]]

\* IconProcessor.process_android_icon(source_icon, mipmap_dir, size); `fail`
\* is the save that the file system refuses, 0 for none
ProcessAndroidIconPkg ==
    /\ pc = "ready"
    /\ \E source_icon \in LocalPaths, size \in TransformSizes,
          source \in SourceImages, fail \in 0..3 :
         LET r == Saving(out, process_android_icon(fs, source_icon,
                                  AsPath(mipmap_dir("mdpi")), size, background_color, fail))
         IN  /\ out' = PutAll(out, r.files)
             /\ last' = Transformed("pkg", source_icon, source, size, background_color,
                                    fail, r)
    /\ pc' = "transformed"
    /\ UNCHANGED <<main, url, manifest, icons, background_color, fs, requests>>

\* PWAPackager._process_android_icon(source_icon, mipmap_dir, size) of the script
ProcessAndroidIconScript ==
    /\ pc = "ready"
    /\ \E source_icon \in LocalPaths, size \in TransformSizes,
          source \in SourceImages, fail \in 0..3 :
         LET color == ScriptColor(background_color)
             r == Saving(out, process_android_icon(fs, source_icon,
                                  AsPath(mipmap_dir("mdpi")), size, color, fail))
         IN  /\ out' = PutAll(out, r.files)
             /\ last' = Transformed("script", source_icon, source, size, color, fail, r)
    /\ pc' = "transformed"
    /\ UNCHANGED <<main, url, manifest, icons, background_color, fs, requests>>

----------------------------------------------------------------------------
(* IconProcessor.process_macos_icon, _convert_to_icns, package_macos *)

\* int(size * 0.8)
MacContentSize(size) == (8 * size) \div 10

\* The transform of one size/scale pair; fail = 1: the save is refused.
process_macos_icon(files, source_icon, output_path, size, fail) ==
    IF ~ValidSource(files, source_icon) \/ MacContentSize(size) < 1 \/ fail = 1
    THEN [ret |-> FALSE, files |-> <<>>]
    ELSE [ret |-> TRUE,
          files |-> <<[path |-> output_path,
                       content |-> [layer |-> "macos", size |-> size,
                                    from |-> files[source_icon].from, color |-> None]]>>]

\* a canvas without padding
NoPadding(size, target_size) == 0

\* padding = (size - target_size) // 2
MacPadding(size, target_size) == (size - target_size) \div 2

\* The image process_macos_icon saves, by the values it is built from: the
\* source resized to target_size x target_size, masked, and pasted at
\* (padding, padding) into a transparent size x size canvas
MacImage(source, size) ==
    LET target_size == MacContentSize(size)
    IN  [w |-> size, h |-> size, source |-> source, target_size |-> target_size,
         padding |-> MacPadding(size, target_size), radius |-> target_size \div 4]

\* the mask at (x, y): draw.rounded_rectangle([0, 0, t, t], radius, fill=255)
\* on a black t x t image; 255 inside the rectangle with its corners rounded
RoundedRectMask(t, radius, x, y) ==
    LET near(v) == IF v < radius THEN radius
                   ELSE IF v > t - radius THEN t - radius ELSE v
        dx == x - near(x)
        dy == y - near(y)
    IN  IF dx * dx + dy * dy <= radius * radius THEN 255 ELSE 0

\* the pixel of the saved image at (x, y): inside the pasted box the resized
\* source pixel with the mask as its alpha, outside it the canvas
MacPixel(img, x, y) ==
    LET t == img.target_size
        u == x - img.padding
        v == y - img.padding
    IN  IF u \in Columns(t) /\ v \in Rows(t)
        THEN LET s == img.source.px[(u * img.source.w) \div t][(v * img.source.h) \div t]
             IN  <<s[1], s[2], s[3], RoundedRectMask(t, img.radius, u, v)>>
        ELSE <<0, 0, 0, 0>>

\* sizes, and for each (scale, suffix) in [(1, ''), (2, '@2x')]
MacSizes == <<16, 32, 64, 128, 256, 512, 1024>>

MacScales == <<[scale |-> 1, suffix |-> ""], [scale |-> 2, suffix |-> "@2x"]>>

\* the (size, scale) pairs in the order of the nested loops
MacOutputs ==
    LET pair(n) == [size |-> MacSizes[(n + 1) \div 2],
                    scale |-> MacScales[2 - (n % 2)].scale,
                    suffix |-> MacScales[2 - (n % 2)].suffix]
    IN  <<pair(1), pair(2), pair(3), pair(4), pair(5), pair(6), pair(7),
          pair(8), pair(9), pair(10), pair(11), pair(12), pair(13), pair(14)>>

\* str(n) for the sizes of the icon set
SizeStr(n) ==
    CASE n = 16 -> "16" [] n = 32 -> "32" [] n = 64 -> "64" [] n = 128 -> "128"
      [] n = 256 -> "256" [] n = 512 -> "512" [] n = 1024 -> "1024"

\* Path(png_path).parent / "icon.iconset"
iconset_path == icons_dir \o "/icon.iconset"

\* a name that leaves the scale out
NameWithoutScale(o) == "icon_" \o SizeStr(o.size) \o "x" \o SizeStr(o.size) \o ".png"

\* f"icon_{size}x{size}{suffix}.png"
MacOutputName(o) == "icon_" \o SizeStr(o.size) \o "x" \o SizeStr(o.size) \o o.suffix \o ".png"

Directory == [layer |-> "directory", size |-> 0, from |-> 0, color |-> None]

\* shutil.rmtree(dir)
RemoveTree(files, dir) ==
    LET keep == {q \in DOMAIN files : ~StartsWith(q, dir)}
    IN  IF keep = {} THEN EmptyFs ELSE [q \in keep |-> files[q]]

RECURSIVE MacFan(_, _, _)
MacFan(png_path, fail, k) ==
    IF k > Len(MacOutputs) THEN <<>>
    ELSE LET o == MacOutputs[k]
             output_path == iconset_path \o "/" \o MacOutputName(o)
             r == process_macos_icon(fs, png_path, output_path, o.size * o.scale,
                                     FailStage(fail, k))
         IN  <<FanEntry(MacOutputName(o), o.size * o.scale, png_path, r)>>
                \o MacFan(png_path, fail, k + 1)

\* how `iconutil -c icns` and the shutil.move after it end
\*   ok                  both succeed
\*   CalledProcessError  iconutil exits with an error
\*   FileNotFoundError   there is no iconutil
\*   MoveError           iconutil succeeds, shutil.move raises
ToolOutcomes == {"ok", "CalledProcessError", "FileNotFoundError", "MoveError"}

\* one failure at a time: a refused save, or a failure of the packing
MacFailures ==
    {<<fail, "ok">> : fail \in SaveFailures(Len(MacOutputs), 1)}
        \cup {<<<<0, 0>>, tool>> : tool \in ToolOutcomes}

\* a cleanup that only follows a successful packing
AfterSuccess(exc) == exc = None

\* try: ... finally: shutil.rmtree(iconset_path) runs whatever the try raised
Finally(exc) == TRUE

\* the calls _convert_to_icns makes, in order: one transform per output,
\* then the packing tool, the move if the tool succeeded, and the cleanup
RECURSIVE TransformCalls(_)
TransformCalls(n) ==
    IF n = 0 THEN <<>> ELSE <<"process_macos_icon">> \o TransformCalls(n - 1)

\* The body of _convert_to_icns: the staging directory, the 14 transforms,
\* the packing tool, the move, and the rmtree of the finally clause.
\* exc is the exception that leaves the inner try (None: none).
ConvertToIcns(png_path, icns_path, fail, tool) ==
    LET fan    == MacFan(png_path, fail, 1)
        staged == PutAll(Put(fs, iconset_path, Directory), FanFiles(fan))
        exc    == IF tool = "ok" THEN None ELSE tool
    IN  [fan |-> fan,
         calls |-> TransformCalls(Len(fan)) \o <<"iconutil">>
                     \o (IF tool \in {"ok", "MoveError"} THEN <<"shutil.move">> ELSE <<>>)
                     \o (IF Finally(exc) THEN <<"shutil.rmtree">> ELSE <<>>),
         staged |-> {q \in DOMAIN staged : StartsWith(q, iconset_path \o "/")},
         fs  |-> IF Finally(exc) THEN RemoveTree(staged, iconset_path) ELSE staged,
         out |-> IF tool = "ok"
                 THEN Put(out, icns_path,
                          [layer |-> "icns", size |-> Len(FanFiles(fan)),
                           from |-> fs[png_path].from, color |-> None])
                 ELSE out,
         exc |-> exc]

macos_dir == "dist/macos"

app_name == "PWA App"

contents_dir == macos_dir \o "/" \o app_name \o ".app/Contents"

resources_dir == contents_dir \o "/Resources"

\* Info.plist: icon_name is the string of its CFBundleIconFile entry, None
\* when the text has no such entry
InfoPlist(icon_name) ==
    [path |-> contents_dir \o "/Info.plist",
     content |-> [layer |-> "Info.plist", CFBundleIconFile |-> icon_name]]

\* MacOSPackager._get_info_plist(): the entry is part of the literal
get_info_plist == InfoPlist("icon.icns")

\* _get_macos_info_plist(icon_name) of the script: `if icon_name:` adds the entry
get_macos_info_plist(icon_name) == InfoPlist(icon_name)

\* main.swift and build.sh, written after the icon step
MacSources ==
    <<ProjectFile(macos_dir \o "/main.swift"), ProjectFile(macos_dir \o "/build.sh")>>

\* MacOSPackager.package_macos: Info.plist is written first, then the icon
\* is converted (_convert_to_icns catches what the packing raises and
\* returns False), then main.swift and build.sh are written
PackageMacOSPkg ==
    /\ pc = "ready"
    /\ LET sel == get_icon_for_size(icons, 1024)
       IN  IF sel.raised # None
           THEN /\ last' = Packaged("package_macos", "pkg", sel.best_icon, <<>>, <<0, 0>>,
                                    None, None, sel.raised)
                /\ UNCHANGED <<fs, out>>
           ELSE IF sel.best_icon = None
           THEN /\ last' = Packaged("package_macos", "pkg", sel.best_icon, <<>>, <<0, 0>>,
                                    None, None, None)
                /\ out' = PutAll(out, <<get_info_plist>> \o MacSources)
                /\ fs' = fs
           ELSE \E env \in MacFailures :
                  LET c == ConvertToIcns(sel.best_icon, resources_dir \o "/icon.icns",
                                         env[1], env[2])
                  IN  /\ fs' = c.fs
                      /\ out' = PutAll(c.out, <<get_info_plist>> \o MacSources)
                      /\ last' = [Packaged("package_macos", "pkg", sel.best_icon, c.fan,
                                           env[1], None, c.exc, None)
                                    EXCEPT !.tool = env[2], !.calls = c.calls,
                                           !.staged = c.staged]
    /\ pc' = "packaged"
    /\ UNCHANGED <<main, url, manifest, icons, background_color, requests>>

\* PWAPackager.package_macos of the script: _convert_to_icns lets the
\* exception of the packing out, package_macos catches it; Info.plist,
\* main.swift and build.sh are written after the icon step
PackageMacOSScript ==
    /\ pc = "ready"
    /\ LET sel == get_icon_for_size(icons, 1024)
       IN  IF sel.raised # None
           THEN /\ last' = Packaged("package_macos", "script", sel.best_icon, <<>>, <<0, 0>>,
                                    None, None, sel.raised)
                /\ UNCHANGED <<fs, out>>
           ELSE IF sel.best_icon = None
           THEN /\ last' = [Packaged("package_macos", "script", sel.best_icon, <<>>,
                                     <<0, 0>>, None, None, None)
                              EXCEPT !.warned = {"No suitable app icon found"}]
                /\ out' = PutAll(out, <<get_macos_info_plist(None)>> \o MacSources)
                /\ fs' = fs
           ELSE \E env \in MacFailures :
                  LET c == ConvertToIcns(sel.best_icon, resources_dir \o "/" \o app_name \o ".icns",
                                         env[1], env[2])
                  IN  /\ fs' = c.fs
                      /\ out' = PutAll(c.out, <<get_macos_info_plist(app_name \o ".icns")>>
                                                \o MacSources)
                      /\ last' = [Packaged("package_macos", "script", sel.best_icon, c.fan,
                                           env[1], None, c.exc, None)
                                    EXCEPT !.tool = env[2], !.calls = c.calls,
                                           !.staged = c.staged]
    /\ pc' = "packaged"
    /\ UNCHANGED <<main, url, manifest, icons, background_color, requests>>

----------------------------------------------------------------------------
(* One call of the macOS transform, observed pixel by pixel *)

\* the pixel sizes _convert_to_icns asks for
MacPixelSizes == {MacOutputs[k].size * MacOutputs[k].scale : k \in 1..Len(MacOutputs)}

\* the sizes the transform is asked for: the small ones and the icon set's
MacTransformSizes == (1..MaxSize) \cup MacPixelSizes

\* what one call leaves behind: its arguments, the boolean it returned and
\* the image it saved
MacTransformed(variant, source_icon, source, size, fail, r) ==
    [op |-> "process_macos_icon", impl |-> variant, source_icon |-> source_icon,
     source |-> source, size |-> size, color |-> None, fail |-> fail,
     ret |-> r.ret, written |-> r.files,
     images |-> [layer \in {r.files[k].content.layer : k \in 1..Len(r.files)} |->
                    MacImage(source, size)]]

\* IconProcessor.process_macos_icon(source_icon, output_path, size); fail = 1:
\* the save is refused
ProcessMacOSIconPkg ==
    /\ pc = "ready"
    /\ \E source_icon \in LocalPaths, size \in MacTransformSizes,
          source \in SourceImages, fail \in 0..1 :
         LET r == Saving(out, process_macos_icon(fs, source_icon,
                                  iconset_path \o "/icon.png", size, fail))
         IN  /\ out' = PutAll(out, r.files)
             /\ last' = MacTransformed("pkg", source_icon, source, size, fail, r)
    /\ pc' = "transformed"
    /\ UNCHANGED <<main, url, manifest, icons, background_color, fs, requests>>

\* PWAPackager._process_macos_icon(source_icon, output_path, size) of the script
ProcessMacOSIconScript ==
    /\ pc = "ready"
    /\ \E source_icon \in LocalPaths, size \in MacTransformSizes,
          source \in SourceImages, fail \in 0..1 :
         LET r == Saving(out, process_macos_icon(fs, source_icon,
                                  iconset_path \o "/icon.png", size, fail))
         IN  /\ out' = PutAll(out, r.files)
             /\ last' = MacTransformed("script", source_icon, source, size, fail, r)
    /\ pc' = "transformed"
    /\ UNCHANGED <<main, url, manifest, icons, background_color, fs, requests>>

\* the same transform called a second time with the arguments of the first,
\* on the same source file, into the directory the first call wrote to
TransformAgain ==
    /\ pc = "transformed"
    /\ LET r == Saving(out,
                   IF last.op = "process_android_icon"
                   THEN process_android_icon(fs, last.source_icon, AsPath(mipmap_dir("mdpi")),
                                             last.size, last.color, last.fail)
                   ELSE process_macos_icon(fs, last.source_icon, iconset_path \o "/icon.png",
                                           last.size, last.fail))
           second == IF last.op = "process_android_icon"
                     THEN Transformed(last.impl, last.source_icon, last.source, last.size,
                                      last.color, last.fail, r)
                     ELSE MacTransformed(last.impl, last.source_icon, last.source,
                                         last.size, last.fail, r)
       IN  /\ out' = PutAll(out, r.files)
           /\ last' = [op |-> "again", first |-> last, second |-> second]
    /\ pc' = "again"
    /\ UNCHANGED <<main, url, manifest, icons, background_color, fs, requests>>

----------------------------------------------------------------------------
(* IOSPackager.package_ios, _create_ios_structure, _process_ios_icons *)

\* the methods class IconProcessor defines
IconProcessorMethods ==
    {"download_icons", "get_icon_for_size", "process_android_icon", "process_macos_icon"}

\* icon_sizes, flattened in the order of the nested loops
IOSOutputs == <<[base |-> 20, px |-> 40, name |-> "icon_40.png"],
                [base |-> 20, px |-> 60, name |-> "icon_60.png"],
                [base |-> 29, px |-> 58, name |-> "icon_58.png"],
                [base |-> 29, px |-> 87, name |-> "icon_87.png"],
                [base |-> 40, px |-> 80, name |-> "icon_80.png"],
                [base |-> 40, px |-> 120, name |-> "icon_120.png"],
                [base |-> 60, px |-> 120, name |-> "icon_120.png"],
                [base |-> 60, px |-> 180, name |-> "icon_180.png"],
                [base |-> 1024, px |-> 1024, name |-> "icon_1024.png"]>>

ios_iconset_dir == "dist/ios/PWAApp/PWAApp/Assets.xcassets/AppIcon.appiconset"

\* The iOS transform as the specification describes it (RGBA, crop-to-fill
\* to size x size, save); fail = 1: the save is refused.
process_ios_icon(files, source_icon, output_path, size, fail) ==
    IF ~ValidSource(files, source_icon) \/ fail = 1
    THEN [ret |-> FALSE, files |-> <<>>]
    ELSE [ret |-> TRUE,
          files |-> <<[path |-> output_path,
                       content |-> [layer |-> "ios", size |-> size,
                                    from |-> files[source_icon].from, color |-> None]]>>]

RECURSIVE IOSFan(_, _, _)
IOSFan(source_icon, fail, k) ==
    IF k > Len(IOSOutputs) THEN <<>>
    ELSE LET o == IOSOutputs[k]
             r == process_ios_icon(fs, source_icon, ios_iconset_dir \o "/" \o o.name,
                                   o.px, FailStage(fail, k))
         IN  <<FanEntry(o.name, o.px, source_icon, r)>> \o IOSFan(source_icon, fail, k + 1)

\* str(base) and f"{target_size/base}x" for base = float(base_size.split('x')[0])
FloatStr(n) ==
    CASE n = 1 -> "1.0" [] n = 2 -> "2.0" [] n = 3 -> "3.0" [] n = 20 -> "20.0"
      [] n = 29 -> "29.0" [] n = 40 -> "40.0" [] n = 60 -> "60.0" [] n = 1024 -> "1024.0"

\* the entry contents["images"] gets for an output whose transform returned True
IOSImageEntry(o) ==
    [size |-> FloatStr(o.base) \o "x" \o FloatStr(o.base),
     idiom |-> IF o.base # 1024 THEN "iphone" ELSE "ios-marketing",
     scale |-> FloatStr(o.px \div o.base) \o "x",
     filename |-> o.name]

RECURSIVE IOSImages(_, _)
IOSImages(fan, k) ==
    IF k > Len(fan) THEN <<>>
    ELSE (IF fan[k].ret THEN <<IOSImageEntry(IOSOutputs[k])>> ELSE <<>>)
            \o IOSImages(fan, k + 1)

\* json.dump(contents, f) into iconset_dir / "Contents.json"
IOSContentsFile(fan) ==
    [path |-> ios_iconset_dir \o "/Contents.json",
     content |-> [layer |-> "Contents.json", images |-> IOSImages(fan, 1)]]

\* _process_ios_icons: the loop looks up self.icon_processor.process_ios_icon
\* for its first output; an attribute IconProcessor does not define raises
\* AttributeError, which nothing in the method catches, and Contents.json
\* is not reached
ProcessIOSIcons(source_icon, fail) ==
    IF "process_ios_icon" \in IconProcessorMethods
    THEN LET fan == IOSFan(source_icon, fail, 1)
         IN  [fan |-> fan, files |-> FanFiles(fan) \o <<IOSContentsFile(fan)>>,
              raised |-> None]
    ELSE [fan |-> <<>>, files |-> <<>>, raised |-> "AttributeError"]

ios_project_dir == "dist/ios/PWAApp"

\* _create_ios_structure, the files written before the icon step
IOSSources ==
    <<ProjectFile(ios_project_dir \o "/PWAApp/AppDelegate.swift"),
      ProjectFile(ios_project_dir \o "/PWAApp/ViewController.swift"),
      ProjectFile(ios_project_dir \o "/PWAApp/Info.plist")>>

\* a packager that stops at the icon step
NothingWritten == <<>>

\* _create_ios_structure, the files written after the icon step
IOSProject ==
    <<ProjectFile(ios_project_dir \o "/PWAApp.xcodeproj/project.pbxproj"),
      ProjectFile(ios_project_dir \o "/build.sh")>>

\* IOSPackager.package_ios: nothing is caught, an exception of the icon
\* step leaves the method before the project file and the build script
PackageIOSPkg ==
    /\ pc = "ready"
    /\ LET sel == get_icon_for_size(icons, 1024)
       IN  IF sel.raised # None
           THEN /\ last' = Packaged("package_ios", "pkg", sel.best_icon, <<>>, <<0, 0>>,
                                    None, None, sel.raised)
                /\ out' = out
           ELSE IF sel.best_icon = None
           THEN /\ last' = Packaged("package_ios", "pkg", sel.best_icon, <<>>, <<0, 0>>,
                                    None, None, None)
                /\ out' = PutAll(out, IOSSources \o IOSProject)
           ELSE \E fail \in SaveFailures(Len(IOSOutputs), 1) :
                  LET p == ProcessIOSIcons(sel.best_icon, fail)
                  IN  /\ out' = PutAll(out, IOSSources \o p.files
                                     \o (IF p.raised = None THEN IOSProject ELSE <<>>))
                      /\ last' = [Packaged("package_ios", "pkg", sel.best_icon, p.fan,
                                           fail, p.raised, None, p.raised)
                                    EXCEPT !.fail = IF p.raised = None THEN fail ELSE <<0, 0>>]
    /\ pc' = "packaged"
    /\ UNCHANGED <<main, url, manifest, icons, background_color, fs, requests>>

\* package_ios of the script: a stub that prints and returns
PackageIOSScript ==
    /\ pc = "ready"
    /\ last' = Packaged("package_ios", "script", None, <<>>, <<0, 0>>, None, None, None)
    /\ pc' = "packaged"
    /\ UNCHANGED <<main, url, manifest, icons, background_color, fs, requests, out>>

----------------------------------------------------------------------------
(* WindowsPackager.package_windows, _process_windows_icon *)

windows_dir == "dist/windows"

windows_icon_path == windows_dir \o "/PWAApp/app.ico"

\* the pixel widths of the square images a server can answer with
SourceSizes == {32, 72, 256, 512}

\* img.save(output_path, format='ICO', sizes=[(16, 16), (32, 32), (48, 48),
\* (256, 256)]): Pillow's ICO writer leaves out every requested size that is
\* larger than the image it is given
IcoFrames(width) == {s \in {16, 32, 48, 256} : s <= width}

\* _process_windows_icon: open, save as ICO (each frame the image scaled, no
\* mask); every exception is caught and printed as a warning.  fail = 1: the
\* save is refused.
ProcessWindowsIcon(files, source_icon, output_path, fail, width) ==
    IF ~ValidSource(files, source_icon) \/ fail = 1
    THEN [ret |-> FALSE, files |-> <<>>, warned |-> {"Could not create Windows icon"}]
    ELSE [ret |-> TRUE,
          files |-> <<[path |-> output_path,
                       content |-> [layer |-> "ico", size |-> IcoFrames(width),
                                    from |-> files[source_icon].from, color |-> None,
                                    mask |-> None]]>>,
          warned |-> {}]

\* the environments of package_windows: a source of any of the sizes, or a
\* refused save
WindowsEnvs ==
    {<<<<0, 0>>, width>> : width \in SourceSizes} \cup {<<<<1, 1>>, 256>>}

\* _create_windows_structure: the three project sources, the icon if one was
\* selected, then the solution file
WindowsStructure(icon_files) ==
    <<ProjectFile(windows_dir \o "/PWAApp/PWAApp.csproj"),
      ProjectFile(windows_dir \o "/PWAApp/Program.cs"),
      ProjectFile(windows_dir \o "/PWAApp/MainWindow.cs")>>
        \o icon_files \o <<ProjectFile(windows_dir \o "/PWAApp.sln")>>

PackageWindowsPkg ==
    /\ pc = "ready"
    /\ LET sel == get_icon_for_size(icons, 256)
       IN  IF sel.raised # None
           THEN /\ last' = Packaged("package_windows", "pkg", sel.best_icon, <<>>, <<0, 0>>,
                                    None, None, sel.raised)
                /\ out' = out
           ELSE IF sel.best_icon = None
           THEN /\ last' = Packaged("package_windows", "pkg", sel.best_icon, <<>>, <<0, 0>>,
                                    None, None, None)
                /\ out' = PutAll(out, WindowsStructure(<<>>))
           ELSE \E env \in WindowsEnvs :
                  LET fail == env[1]
                      width == env[2]
                      r == ProcessWindowsIcon(fs, sel.best_icon, windows_icon_path,
                                              FailStage(fail, 1), width)
                      fan == <<FanEntry("app.ico", 256, sel.best_icon, r)>>
                  IN  /\ out' = PutAll(out, WindowsStructure(r.files))
                      /\ last' = [Packaged("package_windows", "pkg", sel.best_icon, fan,
                                           fail, None, None, None)
                                    EXCEPT !.warned = r.warned, !.source_size = width]
    /\ pc' = "packaged"
    /\ UNCHANGED <<main, url, manifest, icons, background_color, fs, requests>>

\* package_windows of the script: a stub that prints and returns
PackageWindowsScript ==
    /\ pc = "ready"
    /\ last' = Packaged("package_windows", "script", None, <<>>, <<0, 0>>, None, None, None)
    /\ pc' = "packaged"
    /\ UNCHANGED <<main, url, manifest, icons, background_color, fs, requests, out>>

Next ==
    \/ FetchManifestFails
    \/ FetchManifest
    \/ GetIconForSize

Spec == Init /\ [][Next]_vars

\* the manifests of the packaging runs
PackageSizesInputs == {None, "72x72", "192x192", "any"}

PackageCatalogs == SeqsUpTo([src : {"/a.png"}, sizes : PackageSizesInputs], MaxPackageIcons)

InitPackage ==
    /\ manifest \in Manifests(PackageCatalogs, ColorInputs)
    /\ Constructed

NextPackage ==
    \/ FetchManifestFails
    \/ FetchManifest
    \/ PackageAndroidPkg
    \/ PackageAndroidScript
    \/ PackageMacOSPkg
    \/ PackageMacOSScript
    \/ PackageIOSPkg
    \/ PackageIOSScript
    \/ PackageWindowsPkg
    \/ PackageWindowsScript

SpecPackage == InitPackage /\ [][NextPackage]_vars

\* the manifests of the runs that mix selections and packaging calls
OperationCatalogs ==
    SeqsUpTo([src : {"/a.png"}, sizes : {"72x72", "any"}], MaxIcons)

InitOperations ==
    /\ manifest \in Manifests(OperationCatalogs, {None})
    /\ Constructed

\* a packager after construction: fetch_manifest, then get_icon_for_size any
\* number of times, then one packaging call
NextOperations ==
    \/ FetchManifestFails
    \/ FetchManifest
    \/ GetIconForSize
    \/ PackageAndroidPkg
    \/ PackageAndroidScript
    \/ PackageMacOSPkg
    \/ PackageMacOSScript
    \/ PackageIOSPkg
    \/ PackageIOSScript
    \/ PackageWindowsPkg
    \/ PackageWindowsScript

SpecOperations == InitOperations /\ [][NextOperations]_vars

----------------------------------------------------------------------------
(* download_icons, the URL of one icon *)

\* the URLs given on the command line, with and without trailing slashes
UrlBaseInputs == {"https://h", "https://h/", "https://h//", "https://h/app/", "http://g/"}

\* the `src` strings of the manifests that look at the requested URL
UrlSrcInputs ==
    {"/a.png", "a.png", "img/a.png", "//cdn/a.png", "http://c/a.png", "https://c/a.png",
     "HTTPS://c/a.png", "ftp://c/a.png", "data:image/png;base64,AA", "httpdocs/a.png"}

UrlCatalogs == {<<[src |-> src, sizes |-> "48x48"]>> : src \in UrlSrcInputs}

\* PWAPackager.__init__ on each base URL, the server holding each catalog
InitUrl ==
    /\ manifest \in Manifests(UrlCatalogs, {None})
    /\ url \in {RStrip(u, "/") : u \in UrlBaseInputs}
    /\ main = NoMain
    /\ icons = <<>>
    /\ background_color = DefaultColor
    /\ fs = EmptyFs
    /\ requests = <<>>
    /\ out = EmptyFs
    /\ pc = "new"
    /\ last = [op |-> "init"]

NextUrl ==
    \/ FetchManifestFails
    \/ FetchManifest

SpecUrl == InitUrl /\ [][NextUrl]_vars

----------------------------------------------------------------------------
(* check_dependencies *)

\* ord(c) for the characters of a version string
Ord(c) == IF c = "." THEN 46 ELSE 48 + DigitVal(c)

\* a < b for two str values: by code point, a proper prefix being smaller
RECURSIVE StrLess(_, _)
StrLess(a, b) ==
    IF Len(b) = 0 THEN FALSE
    ELSE IF Len(a) = 0 THEN TRUE
    ELSE IF Char(a, 1) # Char(b, 1) THEN Ord(Char(a, 1)) < Ord(Char(b, 1))
    ELSE StrLess(SubSeq(a, 2, Len(a)), SubSeq(b, 2, Len(b)))

\* package.split('>=') for each element of `required`
RequiredPkg ==
    {[name |-> "requests", min |-> "2.31.0"], [name |-> "colorama", min |-> "0.4.6"],
     [name |-> "pathlib", min |-> "1.0.1"], [name |-> "Pillow", min |-> "9.0.0"]}

RequiredScript ==
    {[name |-> "requests", min |-> "2.31.0"], [name |-> "colorama", min |-> "0.4.6"],
     [name |-> "pathlib", min |-> "1.0.1"]}

\* what version(name) gives for a package (None: PackageNotFoundError)
VersionInputs == {None, "0.4.6", "2.4.0", "2.31.0", "9.0.0", "10.0.0"}

\* how the two pip calls end: both succeed, the first or the second exits
\* with an error, or the first raises another exception
PipOutcomes == {"ok", "first fails", "second fails", "Exception"}

\* check_dependencies in an environment `installed`, pip ending as `pip`:
\* the packages it found missing, the check_call calls it made and the
\* status it exited with (None: it returned)
check_dependencies(required, installed, pip) ==
    LET missing == {r \in required :
                       \/ installed[r.name] = None
                       \/ StrLess(installed[r.name], r.min)}
    IN  [missing |-> missing,
         calls |-> IF missing = {} THEN 0
                   ELSE IF pip \in {"first fails", "Exception"} THEN 1 ELSE 2,
         exit |-> IF missing # {} /\ pip \in {"first fails", "second fails"}
                  THEN "1" ELSE None]

\* the interpreter starts in one of the environments
InitDeps ==
    /\ last \in [op : {"init"}, installed : [{r.name : r \in RequiredPkg} -> VersionInputs]]
    /\ pc = "deps"
    /\ manifest = [icons |-> <<>>, background_color |-> None, status |-> "ok"]
    /\ url = "https://h"
    /\ main = NoMain
    /\ icons = <<>>
    /\ background_color = DefaultColor
    /\ fs = EmptyFs
    /\ requests = <<>>
    /\ out = EmptyFs

Checked(variant, required, installed, r) ==
    [op |-> "check_dependencies", impl |-> variant, required |-> required,
     installed |-> installed, missing |-> r.missing, calls |-> r.calls, exit |-> r.exit]

\* check_dependencies() of the package, called by cli.main
CheckDependenciesPkg ==
    /\ pc = "deps"
    /\ \E pip \in PipOutcomes :
         last' = Checked("pkg", RequiredPkg, last.installed,
                         check_dependencies(RequiredPkg, last.installed, pip))
    /\ pc' = "checked"
    /\ UNCHANGED <<main, url, manifest, icons, background_color, fs, requests, out>>

\* check_dependencies() of the script, called when the module is loaded
CheckDependenciesScript ==
    /\ pc = "deps"
    /\ \E pip \in PipOutcomes :
         last' = Checked("script", RequiredScript, last.installed,
                         check_dependencies(RequiredScript, last.installed, pip))
    /\ pc' = "checked"
    /\ UNCHANGED <<main, url, manifest, icons, background_color, fs, requests, out>>

NextDeps ==
    \/ CheckDependenciesPkg
    \/ CheckDependenciesScript

SpecDeps == InitDeps /\ [][NextDeps]_vars

\* the manifests of the runs that look at the pixels of the transform
TransformCatalogs == SeqsUpTo([src : {"/a.png"}, sizes : {"48x48"}], 1)

InitTransform ==
    /\ manifest \in Manifests(TransformCatalogs, ColorInputs)
    /\ Constructed

NextTransform ==
    \/ FetchManifestFails
    \/ FetchManifest
    \/ ProcessAndroidIconPkg
    \/ ProcessAndroidIconScript
    \/ ProcessMacOSIconPkg
    \/ ProcessMacOSIconScript
    \/ TransformAgain

SpecTransform == InitTransform /\ [][NextTransform]_vars

----------------------------------------------------------------------------
(* cli.main: one packager per requested platform *)

\* the keys of the dict `packagers`
Packagers == {"android", "ios", "macos", "windows"}

\* the names --platforms can hold: the four platforms and one other string
PlatformNames == Packagers \cup {"tizen"}

\* args.platforms.lower().split(','): never the empty list
PlatformLists == SeqsUpTo(PlatformNames, MaxPlatforms) \ {<<>>}

\* what the server answers to the packagers main creates
MainCatalogs ==
    SeqsUpTo([src : {"/a.png"}, sizes : {"72x72", "any"}], 1)

\* a main without the try around the packaging call
ExceptNothing(exc) == FALSE

\* `except Exception as e` around the packaging call of one platform
MainExcept(exc) == TRUE

\* the platform of the current iteration
Platform == main.platforms[main.i]

\* the loop moves on to the next platform, `event` being what happened to
\* the current one
Processed(event) ==
    [main EXCEPT !.log = Append(@, [platform |-> Platform, event |-> event]),
                 !.i = @ + 1]

\* main called with a URL and a list of platforms, before the loop
InitMain ==
    /\ main \in [platforms : PlatformLists, i : {1}, log : {<<>>}, returned : {FALSE}]
    /\ manifest \in Manifests(MainCatalogs, {None})
    /\ url \in {RStrip(u, "/") : u \in UrlInputs}
    /\ icons = <<>>
    /\ background_color = DefaultColor
    /\ fs = EmptyFs
    /\ requests = <<>>
    /\ out = EmptyFs
    /\ pc = "main"
    /\ last = [op |-> "main"]

\* `if platform in packagers:` a new packager for the platform; the server
\* answers its manifest request in any of the modelled ways
MainCreatePackager ==
    /\ pc = "main"
    /\ main.i <= Len(main.platforms)
    /\ Platform \in Packagers
    /\ manifest' \in Manifests(MainCatalogs, {None})
    /\ icons' = <<>>
    /\ background_color' = DefaultColor
    /\ requests' = <<>>
    /\ pc' = "new"
    /\ last' = [op |-> "main"]
    /\ UNCHANGED <<main, url, fs, out>>

\* `else:` the warning for a platform that is no key of packagers
MainUnknownPlatform ==
    /\ pc = "main"
    /\ main.i <= Len(main.platforms)
    /\ Platform \notin Packagers
    /\ main' = Processed("unknown platform")
    /\ UNCHANGED <<url, manifest, icons, background_color, fs, requests, out, pc, last>>

\* `if not packager.fetch_manifest(): print(...); continue`
MainContinue ==
    /\ pc = "nofetch"
    /\ main.i \in 1..Len(main.platforms)
    /\ main' = Processed("no manifest")
    /\ pc' = "main"
    /\ last' = [op |-> "main"]
    /\ UNCHANGED <<url, manifest, icons, background_color, fs, requests, out>>

\* the packaging call main makes for the platform; in the runs of main no
\* save is refused
MainPackageAndroid ==
    /\ main.i \in 1..Len(main.platforms) /\ Platform = "android"
    /\ PackageAndroidPkg
    /\ last'.fail = <<0, 0>>

MainPackageIOS ==
    /\ main.i \in 1..Len(main.platforms) /\ Platform = "ios"
    /\ PackageIOSPkg
    /\ last'.fail = <<0, 0>>

MainPackageMacOS ==
    /\ main.i \in 1..Len(main.platforms) /\ Platform = "macos"
    /\ PackageMacOSPkg
    /\ last'.fail = <<0, 0>>

MainPackageWindows ==
    /\ main.i \in 1..Len(main.platforms) /\ Platform = "windows"
    /\ PackageWindowsPkg
    /\ last'.fail = <<0, 0>>

\* the end of the try statement: an exception that left the packaging call
\* is caught and printed, or leaves main
MainAfterPackaging ==
    /\ pc = "packaged"
    /\ main.i \in 1..Len(main.platforms)
    /\ IF last.raised = None
       THEN main' = Processed("packaged") /\ pc' = "main"
       ELSE IF MainExcept(last.raised)
       THEN main' = Processed("error printed") /\ pc' = "main"
       ELSE main' = main /\ pc' = "raised"
    /\ last' = [op |-> "main"]
    /\ UNCHANGED <<url, manifest, icons, background_color, fs, requests, out>>

\* the loop is exhausted: main returns
MainReturn ==
    /\ pc = "main"
    /\ main.i > Len(main.platforms)
    /\ main' = [main EXCEPT !.returned = TRUE]
    /\ pc' = "returned"
    /\ UNCHANGED <<url, manifest, icons, background_color, fs, requests, out, last>>

NextMain ==
    \/ MainCreatePackager
    \/ MainUnknownPlatform
    \/ FetchManifestFails
    \/ FetchManifest
    \/ MainContinue
    \/ MainPackageAndroid
    \/ MainPackageIOS
    \/ MainPackageMacOS
    \/ MainPackageWindows
    \/ MainAfterPackaging
    \/ MainReturn

SpecMain == InitMain /\ [][NextMain]_vars

----------------------------------------------------------------------------
(* main of the standalone script: one packager for all platforms *)

\* main called with a URL and a list of platforms: the packager is created
InitScriptMain ==
    /\ main \in [platforms : PlatformLists, i : {1}, log : {<<>>}, returned : {FALSE}]
    /\ manifest \in Manifests(MainCatalogs, {None})
    /\ url \in {RStrip(u, "/") : u \in UrlInputs}
    /\ icons = <<>>
    /\ background_color = DefaultColor
    /\ fs = EmptyFs
    /\ requests = <<>>
    /\ out = EmptyFs
    /\ pc = "new"
    /\ last = [op |-> "init"]

\* `if not packager.fetch_manifest(): print(...)` and then
\* `packager.confirm_continue()`, a method PWAPackager does not have: the
\* attribute lookup raises AttributeError, which nothing catches
ScriptMainConfirmContinue ==
    /\ pc = "nofetch"
    /\ main' = [main EXCEPT !.log = Append(@, [platform |-> None, event |-> "no manifest"])]
    /\ pc' = "raised"
    /\ last' = [op |-> "confirm_continue", raised |-> "AttributeError"]
    /\ UNCHANGED <<url, manifest, icons, background_color, fs, requests, out>>

\* the packaging call of one iteration; no save is refused
ScriptMainPackageAndroid ==
    /\ main.i \in 1..Len(main.platforms) /\ Platform = "android"
    /\ PackageAndroidScript
    /\ last'.fail = <<0, 0>>

ScriptMainPackageIOS ==
    /\ main.i \in 1..Len(main.platforms) /\ Platform = "ios"
    /\ PackageIOSScript

ScriptMainPackageMacOS ==
    /\ main.i \in 1..Len(main.platforms) /\ Platform = "macos"
    /\ PackageMacOSScript
    /\ last'.fail = <<0, 0>>

ScriptMainPackageWindows ==
    /\ main.i \in 1..Len(main.platforms) /\ Platform = "windows"
    /\ PackageWindowsScript

\* `else: print(f"Unknown platform: {platform}")`
ScriptMainUnknownPlatform ==
    /\ pc = "ready"
    /\ main.i \in 1..Len(main.platforms)
    /\ Platform \notin Packagers
    /\ main' = Processed("unknown platform")
    /\ UNCHANGED <<url, manifest, icons, background_color, fs, requests, out, pc, last>>

\* the packaging call has ended: the loop goes on, or the exception that
\* left the call leaves main, which has no try statement
ScriptMainAfterPackaging ==
    /\ pc = "packaged"
    /\ main.i \in 1..Len(main.platforms)
    /\ IF last.raised = None
       THEN main' = Processed("packaged") /\ pc' = "ready"
       ELSE main' = main /\ pc' = "raised"
    /\ UNCHANGED <<url, manifest, icons, background_color, fs, requests, out, last>>

\* the loop is exhausted: main returns
ScriptMainReturn ==
    /\ pc = "ready"
    /\ main.i > Len(main.platforms)
    /\ main' = [main EXCEPT !.returned = TRUE]
    /\ pc' = "returned"
    /\ UNCHANGED <<url, manifest, icons, background_color, fs, requests, out, last>>

NextScriptMain ==
    \/ FetchManifestFails
    \/ FetchManifest
    \/ ScriptMainConfirmContinue
    \/ ScriptMainPackageAndroid
    \/ ScriptMainPackageIOS
    \/ ScriptMainPackageMacOS
    \/ ScriptMainPackageWindows
    \/ ScriptMainUnknownPlatform
    \/ ScriptMainAfterPackaging
    \/ ScriptMainReturn

SpecScriptMain == InitScriptMain /\ [][NextScriptMain]_vars

----------------------------------------------------------------------------
(* What the specification calls an eligible descriptor *)

Eligible(icon) ==
    /\ icon.local_path # None
    /\ icon.sizes # None
    /\ IntParses(SplitFirst(icon.sizes, "x"))

NominalSize(icon) == ParseInt(SplitFirst(icon.sizes, "x"))

Distance(icon, target) == Abs(NominalSize(icon) - target)

EligibleIndexes == {i \in 1..Len(icons) : Eligible(icons[i])}

\* index of the first eligible descriptor at minimal distance from target
BestIndex(target) ==
    CHOOSE i \in EligibleIndexes :
        \A j \in EligibleIndexes :
            \/ Distance(icons[i], target) < Distance(icons[j], target)
            \/ Distance(icons[i], target) = Distance(icons[j], target) /\ i <= j

Selected == pc = "ready" /\ last.op = "get_icon_for_size"

Downloaded == last.op = "fetch_manifest" /\ manifest.status = "ok"

----------------------------------------------------------------------------
(* Claims *)

\* C1: whenever the catalog holds an eligible descriptor, get_icon_for_size
\* returns the local path of the eligible descriptor closest to the target,
\* the first one in catalog order among those equally close.
C1_ClosestFirstInOrder ==
    (Selected /\ EligibleIndexes # {}) =>
        /\ last.ret.raised = None
        /\ last.ret.best_icon = icons[BestIndex(last.target)].local_path

\* C2: get_icon_for_size returns None when the catalog is empty or holds no
\* eligible descriptor.
C2_NoneWhenNothingEligible ==
    (Selected /\ EligibleIndexes = {}) =>
        /\ last.ret.raised = None
        /\ last.ret.best_icon = None

\* C3: ineligible descriptors never influence selection: the call does not
\* raise and returns what it returns on the catalog without them.
C3_IneligibleIgnored ==
    Selected =>
        /\ last.ret.raised = None
        /\ last.ret = get_icon_for_size(SelectSeq(icons, Eligible), last.target)

\* C4: after download_icons returns, every local_path names an existing file
\* that holds the complete body of a successful download, and a descriptor
\* whose download failed has no local_path.
C4_LocalPathFullyWritten ==
    Downloaded =>
        \A i \in 1..Len(icons) :
            /\ icons[i].local_path # None =>
                 /\ icons[i].local_path \in DOMAIN fs
                 /\ fs[icons[i].local_path].body = "complete"
            /\ ~last.succeeded[i] => icons[i].local_path = None

\* the URLs of the descriptors that have a src, in catalog order
ExpectedRequests ==
    LET HasSrc(e) == ~Falsy(e.src)
        withSrc == SelectSeq(manifest.icons, HasSrc)
    IN  [k \in 1..Len(withSrc) |-> icon_url(url, withSrc[k].src)]

\* C5: download_icons never aborts because of one icon: it returns normally,
\* has requested every descriptor that has a src exactly once and in catalog
\* order, none without src, and leaves the catalog's length and order alone.
C5_DownloadNeverAborts ==
    Downloaded =>
        /\ last.ok
        /\ pc = "ready"
        /\ requests = ExpectedRequests
        /\ Len(icons) = Len(manifest.icons)
        /\ \A i \in 1..Len(icons) :
              /\ icons[i].src = manifest.icons[i].src
              /\ icons[i].sizes = manifest.icons[i].sizes

\* a write failure on the first icon, then a successful second download
C5_Witness ==
    /\ Downloaded
    /\ Len(icons) = 2
    /\ icon_path(icons[1]) \in DOMAIN fs
    /\ fs[icon_path(icons[1])].body = "partial"
    /\ last.succeeded[2]
    /\ Len(requests) = 2

----------------------------------------------------------------------------
(* Claims about the packaging methods *)

PackageOps == {"package_android", "package_macos", "package_ios", "package_windows"}

Packaging == pc = "packaged" /\ last.op \in PackageOps

\* the number of icon outputs of a platform
OutputCount(op) ==
    CASE op = "package_android" -> Len(Densities)
      [] op = "package_macos"   -> Len(MacOutputs)
      [] op = "package_ios"     -> Len(IOSOutputs)
      [] op = "package_windows" -> 1

\* C6: a failure while producing one icon output is caught at that output:
\* every output of the platform is still attempted, the failed one is
\* reported as false, and no exception leaves the icon fan-out.
C6_FailureStaysAtItsOutput ==
    (Packaging /\ last.icon # None) =>
        /\ last.fan_raised = None
        /\ Len(last.fan) = OutputCount(last.op)
        /\ \A k \in 1..Len(last.fan) : last.fail[1] = k => ~last.fan[k].ret

\* the three files of a density's mipmap folder
LauncherFiles(density) ==
    {mipmap_dir(density) \o "/ic_launcher_foreground.png",
     mipmap_dir(density) \o "/ic_launcher_background.png",
     mipmap_dir(density) \o "/ic_launcher.png"}

\* C7: with an icon available and a valid source image (no save refused, a
\* color PIL accepts), Android packaging writes the three launcher files
\* into the mipmap folder of each of the five densities.
C7_ThreeFilesPerDensity ==
    (/\ Packaging
     /\ last.op = "package_android"
     /\ last.icon # None
     /\ \A k \in 1..Len(last.fan) : ValidSource(fs, last.fan[k].source)
     /\ last.fail = <<0, 0>>
     /\ ValidColor(background_color)) =>
        \A k \in 1..Len(Densities) :
            /\ LauncherFiles(Densities[k].density) \subseteq DOMAIN out
            /\ \A p \in LauncherFiles(Densities[k].density) :
                  out[p].size = Densities[k].size

\* C9: the source handed to the transform of a density is the icon that
\* get_icon_for_size selects for that density's own pixel size.
C9_SourceChosenPerDensity ==
    (Packaging /\ last.op = "package_android") =>
        \A k \in 1..Len(last.fan) :
            last.fan[k].source = get_icon_for_size(icons, last.fan[k].size).best_icon

----------------------------------------------------------------------------
(* Claims about the pixels of the Android layers *)

TransformDone == pc = "transformed" /\ last.op = "process_android_icon"

DensitySizes == {Densities[k].size : k \in 1..Len(Densities)}

Corners(size) == {0, size - 1} \X {0, size - 1}

\* the image has exactly w columns of h pixels
HasSize(img, w, h) ==
    /\ img.w = w
    /\ img.h = h
    /\ DOMAIN img.px = Columns(w)
    /\ \A x \in Columns(w) : DOMAIN img.px[x] = Rows(h)

\* pixel `shown` displays, fully opaque, the color of a pixel of the source
ShowsSource(shown, source) ==
    \E x \in Columns(source.w), y \in Rows(source.h) :
        shown = <<source.px[x][y][1], source.px[x][y][2], source.px[x][y][3], 255>>

\* what C8 says of the three layers of a successful transform
LayersAsClaimed ==
    LET size == last.size
        foreground == last.images["foreground"]
        background == last.images["background"]
        composite == last.images["composite"]
    IN  /\ HasSize(foreground, size, size)
        /\ HasSize(background, size, size)
        /\ \A x \in Columns(size), y \in Rows(size) :
              composite.px[x][y] = IF foreground.px[x][y][4] = 255
                                   THEN foreground.px[x][y]
                                   ELSE background.px[x][y]
        /\ \A p \in Corners(size) :
              composite.px[p[1]][p[2]] = ColorPixel(background_color)
        /\ ShowsSource(composite.px[size \div 2][size \div 2], last.source)

----------------------------------------------------------------------------
(* Claims about the pixels of the macOS image *)

MacTransformDone == pc = "transformed" /\ last.op = "process_macos_icon"

\* the transparent pixels of row y among the columns xs, and of column x
\* among the rows ys
ClearInRow(img, xs, y) == {x \in xs : MacPixel(img, x, y)[4] = 0}

ClearInColumn(img, x, ys) == {y \in ys : MacPixel(img, x, y)[4] = 0}

\* the padding measured on the image: the transparent pixels from each edge
\* up to the middle, along the middle row and the middle column
LeftPad(img) == Cardinality(ClearInRow(img, 0..(img.w \div 2), img.h \div 2))

RightPad(img) == Cardinality(ClearInRow(img, (img.w \div 2)..(img.w - 1), img.h \div 2))

TopPad(img) == Cardinality(ClearInColumn(img, img.w \div 2, 0..(img.h \div 2)))

BottomPad(img) == Cardinality(ClearInColumn(img, img.w \div 2, (img.h \div 2)..(img.h - 1)))

\* the image is a size x size canvas that holds content in the square of
\* side `side` whose corner is (left, top), and is transparent outside it
ContentSquare(img, size, side, left, top) ==
    /\ img.w = size /\ img.h = size
    /\ LeftPad(img) = left /\ TopPad(img) = top
    /\ RightPad(img) = size - side - left
    /\ BottomPad(img) = size - side - top
    /\ \A x \in Columns(size), y \in Rows(size) :
          (x \notin left..(left + side - 1) \/ y \notin top..(top + side - 1))
              => MacPixel(img, x, y)[4] = 0

\* C11 as stated: for every pixel size of the icon set the content is a
\* square of side floor(0.8 x size), with the same padding, (size - side)/2,
\* on the left and on the right, at the top and at the bottom, and every
\* pixel outside the square is transparent.
C11_EqualPadding ==
    (MacTransformDone /\ last.ret /\ last.size \in MacPixelSizes) =>
        LET img == last.images["macos"]
            side == (4 * last.size) \div 5
        IN  /\ 2 * LeftPad(img) = last.size - side
            /\ LeftPad(img) = RightPad(img)
            /\ TopPad(img) = BottomPad(img)
            /\ ContentSquare(img, last.size, side, LeftPad(img), TopPad(img))

\* C11 with the padding the integer division leaves: for every pixel size
\* of the icon set the content is a square of side floor(0.8 x size) whose
\* left and top padding is floor((size - side) / 2), the right and bottom
\* padding is the rest (one pixel more when size - side is odd), and every
\* pixel outside the square is transparent.
C11_FloorPadding ==
    (MacTransformDone /\ last.ret /\ last.size \in MacPixelSizes) =>
        LET img == last.images["macos"]
            side == (4 * last.size) \div 5
            pad == (last.size - side) \div 2
        IN  /\ ContentSquare(img, last.size, side, pad, pad)
            /\ RightPad(img) - LeftPad(img) \in {0, 1}
            /\ BottomPad(img) - TopPad(img) \in {0, 1}

\* the 32 pixel image: 25 pixels of content, 3 of padding before and 4 after
C11_Witness ==
    /\ MacTransformDone
    /\ last.ret
    /\ last.size = 32
    /\ LeftPad(last.images["macos"]) = 3
    /\ RightPad(last.images["macos"]) = 4

----------------------------------------------------------------------------
(* Claims about _convert_to_icns *)

\* package_macos selected an icon and so called _convert_to_icns
Converted == Packaging /\ last.op = "package_macos" /\ last.icon # None

\* the name and the pixel size the icon set wants for a size and a scale
IconSetEntry(size, scale) ==
    <<"icon_" \o SizeStr(size) \o "x" \o SizeStr(size)
        \o (IF scale = 2 THEN "@2x" ELSE "") \o ".png",
      size * scale>>

\* C12: _convert_to_icns attempts exactly 14 transforms, one per pair of a
\* size in 16..1024 and a scale in {1, 2}, at size x scale pixels, each under
\* a file name of its own, and calls the packing tool exactly once, after
\* the 14 transforms.
C12_FourteenThenPack ==
    Converted =>
        /\ Len(last.fan) = 14
        /\ {<<last.fan[k].role, last.fan[k].size>> : k \in 1..Len(last.fan)}
              = {IconSetEntry(size, scale) :
                    size \in {16, 32, 64, 128, 256, 512, 1024}, scale \in {1, 2}}
        /\ Cardinality({last.fan[k].role : k \in 1..Len(last.fan)}) = 14
        /\ \A q \in last.staged : \E k \in 1..14 :
              last.fan[k].ret /\ q = iconset_path \o "/" \o last.fan[k].role
        /\ Len(last.calls) >= 15
        /\ \A i \in 1..Len(last.calls) :
              /\ i <= 14 => last.calls[i] = "process_macos_icon"
              /\ i = 15 <=> last.calls[i] = "iconutil"

\* every transform succeeded, the 14 files were staged and the tool packed them
C12_Witness ==
    /\ Converted
    /\ last.tool = "ok"
    /\ \A k \in 1..Len(last.fan) : last.fan[k].ret
    /\ Cardinality(last.staged) = 14
    /\ last.impl = "pkg"

\* C13: whenever _convert_to_icns created the staging directory, whether
\* the packing succeeded or failed and whatever the transforms returned, the
\* directory and the files in it are gone when the function is left.
C13_StagingRemoved ==
    Converted =>
        /\ \A q \in DOMAIN fs : ~StartsWith(q, iconset_path)
        /\ last.calls[Len(last.calls)] = "shutil.rmtree"

\* files were staged, the tool was missing, and the script's function raised
C13_Witness ==
    /\ Converted
    /\ last.impl = "script"
    /\ last.tool = "FileNotFoundError"
    /\ last.caught = "FileNotFoundError"
    /\ Cardinality(last.staged) = 14
    /\ \A q \in DOMAIN fs : ~StartsWith(q, iconset_path)

----------------------------------------------------------------------------
(* Claims about the iOS and the Windows icons *)

\* the pixel sizes iOS requires: 20, 29, 40 and 60 at 2x and 3x, 1024 at 1x
IOSPixelSizes == {40, 60, 58, 87, 80, 120, 180, 1024}

IOSIconFile(px) ==
    ios_iconset_dir \o "/icon_"
        \o (CASE px = 40 -> "40" [] px = 60 -> "60" [] px = 58 -> "58"
               [] px = 87 -> "87" [] px = 80 -> "80" [] px = 120 -> "120"
               [] px = 180 -> "180" [] px = 1024 -> "1024") \o ".png"

\* C14: with an icon selected (a valid image, no save refused) iOS
\* packaging writes one image file of px x px pixels for each required pixel
\* size and a Contents.json whose entries, each with idiom, scale and size,
\* name the produced files.
C14_IOSFilesAndContents ==
    (/\ Packaging
     /\ last.op = "package_ios"
     /\ last.icon # None
     /\ ValidSource(fs, last.icon)
     /\ last.fail = <<0, 0>>) =>
        /\ \A px \in IOSPixelSizes :
              /\ IOSIconFile(px) \in DOMAIN out
              /\ out[IOSIconFile(px)].size = px
        /\ ios_iconset_dir \o "/Contents.json" \in DOMAIN out
        /\ LET images == out[ios_iconset_dir \o "/Contents.json"].images
           IN  /\ {ios_iconset_dir \o "/" \o images[i].filename : i \in 1..Len(images)}
                     = {IOSIconFile(px) : px \in IOSPixelSizes}
               /\ \A i \in 1..Len(images) :
                     DOMAIN images[i] = {"size", "idiom", "scale", "filename"}

\* C15: when an icon is selected for Windows, a valid source of any pixel
\* size gives one app.ico holding frames of exactly 16, 32, 48 and 256 pixels,
\* unmasked; when app.ico is not written a warning reports it; in both cases
\* the solution file is generated.
C15_IcoFramesAndSolution ==
    (/\ Packaging
     /\ last.op = "package_windows"
     /\ last.icon # None) =>
        /\ (ValidSource(fs, last.icon) /\ last.fail = <<0, 0>>) =>
              /\ windows_icon_path \in DOMAIN out
              /\ out[windows_icon_path].size = {16, 32, 48, 256}
              /\ out[windows_icon_path].mask = None
        /\ windows_icon_path \notin DOMAIN out => last.warned # {}
        /\ windows_dir \o "/PWAApp.sln" \in DOMAIN out

----------------------------------------------------------------------------
(* Claims about packaging without an icon and about the metadata *)

\* get_icon_for_size(target) returns None on the catalog of the state
ReturnsNone(target) ==
    LET sel == get_icon_for_size(icons, target)
    IN  sel.raised = None /\ sel.best_icon = None

\* the sizes a packaging method selects an icon for
SelectionTargets(op, impl) ==
    CASE op = "package_android" /\ impl = "pkg"    -> {512}
      [] op = "package_android" /\ impl = "script" -> {48, 72, 96, 144, 192}
      [] op = "package_macos"                      -> {1024}
      [] op = "package_ios" /\ impl = "pkg"        -> {1024}
      [] op = "package_windows" /\ impl = "pkg"    -> {256}
      [] OTHER                                     -> {}

\* the non-icon project files of a platform, as the packager writes them
NonIconFiles(op, impl) ==
    CASE op = "package_android" /\ impl = "pkg" ->
            {"dist/android/build.gradle", "dist/android/settings.gradle",
             "dist/android/gradle.properties", "dist/android/app/build.gradle",
             "dist/android/app/proguard-rules.pro",
             "dist/android/app/src/main/java/com/pwa/wrapper/MainActivity.java",
             "dist/android/app/src/main/AndroidManifest.xml"}
      [] op = "package_android" /\ impl = "script" ->
            {"dist/android/build.gradle", "dist/android/settings.gradle",
             "dist/android/gradle.properties", "dist/android/app/build.gradle",
             "dist/android/app/src/main/java/com/pwa/wrapper/MainActivity.java",
             "dist/android/app/src/main/AndroidManifest.xml"}
      [] op = "package_macos" ->
            {"dist/macos/PWA App.app/Contents/Info.plist", "dist/macos/main.swift",
             "dist/macos/build.sh"}
      [] op = "package_ios" /\ impl = "pkg" ->
            {"dist/ios/PWAApp/PWAApp/AppDelegate.swift",
             "dist/ios/PWAApp/PWAApp/ViewController.swift",
             "dist/ios/PWAApp/PWAApp/Info.plist",
             "dist/ios/PWAApp/PWAApp.xcodeproj/project.pbxproj",
             "dist/ios/PWAApp/build.sh"}
      [] op = "package_windows" /\ impl = "pkg" ->
            {"dist/windows/PWAApp/PWAApp.csproj", "dist/windows/PWAApp/Program.cs",
             "dist/windows/PWAApp/MainWindow.cs", "dist/windows/PWAApp.sln"}
      [] OTHER -> {}

\* C16: on each platform, when get_icon_for_size returns None the packaging
\* method attempts no icon transform, raises and catches nothing, and writes
\* every non-icon project file of the platform (and no icon file).
C16_NoIconStillPackages ==
    (/\ Packaging
     /\ \A target \in SelectionTargets(last.op, last.impl) : ReturnsNone(target)) =>
        /\ last.fan = <<>>
        /\ last.calls = <<>>
        /\ last.raised = None
        /\ last.caught = None
        /\ NonIconFiles(last.op, last.impl) \subseteq DOMAIN out
        /\ \A p \in DOMAIN out : out[p].layer \in {"project", "Info.plist"}

\* the iOS packager of the package ran on a catalog whose one descriptor was
\* not downloaded, and wrote the project file that follows the icon step
C16_Witness ==
    /\ Packaging
    /\ last.op = "package_ios"
    /\ last.impl = "pkg"
    /\ Len(icons) > 0
    /\ ReturnsNone(1024)
    /\ "dist/ios/PWAApp/PWAApp.xcodeproj/project.pbxproj" \in DOMAIN out

\* C17: the metadata a packaging method wrote references an icon only if
\* that icon file was produced: the macOS Info.plist has a CFBundleIconFile
\* entry only if the .icns it names was written, and every file the iOS
\* Contents.json lists was written.
C17_MetadataReferencesProducedIcon ==
    Packaging =>
        /\ (last.op = "package_macos" /\ contents_dir \o "/Info.plist" \in DOMAIN out) =>
              LET icon_name == out[contents_dir \o "/Info.plist"].CFBundleIconFile
              IN  icon_name # None => resources_dir \o "/" \o icon_name \in DOMAIN out
        /\ (last.op = "package_ios" /\ ios_iconset_dir \o "/Contents.json" \in DOMAIN out) =>
              LET images == out[ios_iconset_dir \o "/Contents.json"].images
              IN  \A i \in 1..Len(images) :
                    ios_iconset_dir \o "/" \o images[i].filename \in DOMAIN out

----------------------------------------------------------------------------
(* Claims about cli.main *)

\* C18: whatever happens to a platform (its manifest is not fetched, its
\* packaging call raises, gradle or iconutil fails or is missing, its name is
\* unknown), no exception leaves main, the platforms are processed one by
\* one in the order requested, and when main has returned every requested
\* platform has been processed.
C18_MainProcessesEveryPlatform ==
    /\ pc # "raised"
    /\ Len(main.log) = main.i - 1
    /\ Len(main.log) <= Len(main.platforms)
    /\ \A k \in 1..Len(main.log) : main.log[k].platform = main.platforms[k]
    /\ main.returned => Len(main.log) = Len(main.platforms)
    /\ pc \in {"new", "nofetch", "ready", "packaged"} =>
          main.i <= Len(main.platforms) /\ Platform \in Packagers

\* main has returned from a list of two platforms of which the first raised
\* in its packaging call and the second was packaged
C18_Witness ==
    /\ main.returned
    /\ Len(main.platforms) = 2
    /\ main.log[1].event = "error printed"
    /\ main.log[2].event = "packaged"

----------------------------------------------------------------------------
(* Claims about the transforms as functions *)

----------------------------------------------------------------------------
(* Claims about the catalog over a whole run *)

\* C20: over any sequence of operations on a packager, a descriptor gets
\* its local_path in the step that parses the manifest and downloads the
\* icons, and only if its download succeeded; every later step (a selection,
\* a packaging call) leaves every descriptor's local_path as it was.
C20_LocalPathWrittenOnce ==
    [][IF pc = "new"
       THEN \A i \in 1..Len(icons') :
              icons'[i].local_path # None =>
                  /\ last'.succeeded[i]
                  /\ icons'[i].local_path = icon_path(manifest.icons[i])
       ELSE /\ Len(icons') = Len(icons)
            /\ \A i \in 1..Len(icons) : icons'[i].local_path = icons[i].local_path]_vars

\* a packaging call has selected the one downloaded descriptor of a catalog
\* of two
C20_Witness ==
    /\ Packaging
    /\ Len(icons) = 2
    /\ icons[1].local_path # None
    /\ icons[2].local_path = None
    /\ last.icon = icons[1].local_path

----------------------------------------------------------------------------
(* Claims about the URL and the file of one icon *)

\* the characters of a URI scheme after its first letter
SchemeChars ==
    {Char("abcdefghijklmnopqrstuvwxyzABCDEFGHIJKLMNOPQRSTUVWXYZ0123456789+-.", i) :
        i \in 1..65}

\* the string starts with a URI scheme: a letter, scheme characters, a colon
HasScheme(s) ==
    \E i \in 2..Len(s) :
        /\ Char(s, i) = ":"
        /\ \A j \in 1..(i - 1) : Char(s, j) \in SchemeChars
        /\ Char(s, 1) \notin Digits \cup {"+", "-", "."}

\* the URL the claim gives a source under a base without trailing slash
ExpectedUrl(base, src) ==
    IF HasScheme(src) THEN src
    ELSE base \o "/" \o (IF Char(src, 1) = "/" THEN SubSeq(src, 2, Len(src)) ELSE src)

\* C21: the URL download_icons requests for a source is the source itself
\* if it has a URI scheme, otherwise the base URL without trailing slash,
\* one "/", and the source without its leading slash.
C21_RequestedUrl ==
    (/\ pc = "ready"
     /\ last.op = "fetch_manifest"
     /\ Len(icons) = 1
     /\ ~Falsy(icons[1].src)) =>
        requests = <<ExpectedUrl(url, icons[1].src)>>

----------------------------------------------------------------------------
(* Claims about one run of main *)

\* the platforms of the log for which main created a packager and called
\* its fetch_manifest
FetchedFor == {k \in 1..Len(main.log) : main.log[k].event # "unknown platform"}

\* C22: in one run of main over several platforms the manifest is fetched
\* and the catalog built and downloaded exactly once, whatever the number
\* of platforms requested.
C22_ManifestFetchedOnce ==
    (main.returned /\ \E k \in 1..Len(main.platforms) : main.platforms[k] \in Packagers) =>
        Cardinality(FetchedFor) = 1

----------------------------------------------------------------------------
(* Claims about the paths of the outputs *)

\* no two elements of the sequence are equal
Injective(seq) == \A j, k \in 1..Len(seq) : j # k => seq[j] # seq[k]

\* the paths the icon loop of a platform gives its roles, in order
IOSRolePaths == [k \in 1..Len(IOSOutputs) |-> ios_iconset_dir \o "/" \o IOSOutputs[k].name]

MacRolePaths == [k \in 1..Len(MacOutputs) |-> iconset_path \o "/" \o MacOutputName(MacOutputs[k])]

\* the files the transforms logged in the fan of the script's package_android
\* are given to write, in order
AndroidRoleFiles ==
    FanFiles([k \in 1..Len(last.fan) |->
                 process_android_icon(fs, last.fan[k].source,
                                      AsPath(mipmap_dir(last.fan[k].role)), last.fan[k].size,
                                      ScriptColor(background_color), 0)])

AndroidRolePaths == [k \in 1..Len(AndroidRoleFiles) |-> AndroidRoleFiles[k].path]

\* C23: within a platform's output directory every output role (Android
\* density and layer, macOS size and scale, iOS base size and scale) has a
\* file path of its own: no two roles are given, or write, the same file.
C23_RolePathsDistinct ==
    Packaging =>
        /\ (last.op = "package_android" /\ last.impl = "script") =>
               Injective(AndroidRolePaths)
        /\ (last.op = "package_macos" /\ last.icon # None) => Injective(MacRolePaths)
        /\ (last.op = "package_ios" /\ last.impl = "pkg" /\ last.icon # None) =>
               Injective(IOSRolePaths)

----------------------------------------------------------------------------
(* Claims about the files of the catalog *)

\* the part of the destination name that comes from `sizes`
WidthPart(icon) == IF icon.sizes = None THEN "unknown" ELSE SplitFirst(icon.sizes, "x")

\* the part of the destination name that comes from `src`
ExtPart(icon) == IF Suffix(icon.src) = "" THEN ".png" ELSE Suffix(icon.src)

DestinationOf(icon) == icons_dir \o "/icon_" \o WidthPart(icon) \o ExtPart(icon)

\* descriptor i was downloaded with success in the fetch just made
Fetched(i) == Downloaded /\ pc = "ready" /\ last.succeeded[i]

\* C24: a downloaded descriptor is stored as icon_<width><ext>, with
\* "unknown" for a descriptor without sizes and ".png" for a source without
\* extension; two downloaded descriptors of the same width and extension
\* share that path as local_path, and the file holds what the later one
\* wrote.
C24_SamePathLastWriteWins ==
    \A i, j \in 1..Len(icons) :
        (Fetched(i) /\ Fetched(j)) =>
            /\ icons[i].local_path = DestinationOf(icons[i])
            /\ (i < j /\ WidthPart(icons[i]) = WidthPart(icons[j])
                      /\ Suffix(icons[i].src) = Suffix(icons[j].src)) =>
                   /\ icons[i].local_path = icons[j].local_path
                   /\ fs[icons[j].local_path].from # i
                   /\ (\A k \in (j + 1)..Len(icons) :
                          Falsy(icons[k].src) \/ DestinationOf(icons[k]) # DestinationOf(icons[j])) =>
                          fs[icons[j].local_path].from = j
                          /\ fs[icons[j].local_path].body = "complete"

\* two descriptors without sizes and with the same extensionless source were
\* both downloaded
C24_Witness ==
    /\ Len(icons) = 2
    /\ Fetched(1) /\ Fetched(2)
    /\ icons[1].sizes = None /\ icons[2].sizes = None
    /\ icons[1].src = "b" /\ icons[2].src = "b"
    /\ icons[1].local_path = "dist/icons/icon_unknown.png"
    /\ fs["dist/icons/icon_unknown.png"].from = 2

\* the local paths of the descriptors that were downloaded
LocalFiles == {icons[i].local_path : i \in 1..Len(icons)} \ {None}

\* C25: when no descriptor of the catalog has a usable nominal size but at
\* least one descriptor was downloaded, the selection still returns a
\* downloaded icon, as the fallback, rather than no icon.
C25_FallbackWithoutSize ==
    (Selected /\ EligibleIndexes = {} /\ LocalFiles # {}) =>
        /\ last.ret.raised = None
        /\ last.ret.best_icon \in LocalFiles

----------------------------------------------------------------------------
(* Claims about the geometry and the alpha of the Android foreground *)

\* the columns and rows of the foreground that hold pasted source content:
\* the canvas is black and no source pixel is
ContentColumns(img) == {x \in Columns(img.w) : \E y \in Rows(img.h) : img.px[x][y][1] # 0}

ContentRows(img) == {y \in Rows(img.h) : \E x \in Columns(img.w) : img.px[x][y][1] # 0}

Lowest(S) == CHOOSE n \in S : \A m \in S : n <= m

Highest(S) == CHOOSE n \in S : \A m \in S : m <= n

\* C26: for each launcher size S (48, 72, 96, 144, 192) the content pasted
\* into the foreground is a square of side exactly 3S/4, its offset o
\* satisfies side + 2o = S, and the padding is the same on all four edges.
C26_ExactlyCentered ==
    (TransformDone /\ last.ret /\ last.size \in DensitySizes) =>
        LET S == last.size
            fg == last.images["foreground"]
            cols == ContentColumns(fg)
            rows == ContentRows(fg)
            side == Cardinality(cols)
            o == Lowest(cols)
        IN  /\ 4 * side = 3 * S
            /\ FittedSize(S) = side
            /\ o = (S - side) \div 2
            /\ side + 2 * o = S
            /\ cols = o..(o + side - 1)
            /\ rows = cols
            /\ S - 1 - Highest(cols) = o
            /\ \A x \in cols, y \in rows : fg.px[x][y][1] # 0

\* the hdpi transform succeeded: 54 px of content from offset 9
C26_Witness ==
    /\ TransformDone
    /\ last.ret
    /\ last.size = 72
    /\ last.images["foreground"].px[9][9][1] # 0
    /\ last.images["foreground"].px[8][9][1] = 0
    /\ last.images["foreground"].px[62][62][1] # 0
    /\ last.images["foreground"].px[63][62][1] = 0

\* the Android foreground as it is just before the mask is applied
AndroidBeforeMask(source, size) ==
    LET img == Fit(source, FittedSize(size))
        offset == (size - img.w) \div 2
    IN  Paste(ImageNew(size, size, <<0, 0, 0, 0>>), img, offset, offset)

\* the alpha of the resized macOS source at (u, v), before the mask
MacAlphaBeforeMask(img, u, v) ==
    img.source.px[(u * img.source.w) \div img.target_size][(v * img.source.h) \div img.target_size][4]

\* the macOS sizes whose every pixel is looked at
MacLookedAt == 1..64

\* in the Android foreground no pixel is more opaque than before the mask
AndroidMaskOnlyRemoves ==
    LET before == AndroidBeforeMask(last.source, last.size)
        after == last.images["foreground"]
    IN  \A x \in Columns(last.size), y \in Rows(last.size) :
            after.px[x][y][4] <= before.px[x][y][4]

\* in the macOS image no pixel is more opaque than before the mask
MacMaskOnlyRemoves ==
    LET img == last.images["macos"]
    IN  \A x \in Columns(last.size), y \in Rows(last.size) :
            MacPixel(img, x, y)[4] <=
                IF x - img.padding \in Columns(img.target_size)
                   /\ y - img.padding \in Rows(img.target_size)
                THEN MacAlphaBeforeMask(img, x - img.padding, y - img.padding)
                ELSE 0

\* C27: in the Android and macOS transforms the mask only removes opacity:
\* no output pixel has more alpha than it had before the mask was applied,
\* so the padding and the transparent pixels of the source stay transparent.
C27_MaskOnlyRemovesOpacity ==
    /\ (TransformDone /\ last.ret) => AndroidMaskOnlyRemoves
    /\ (MacTransformDone /\ last.ret /\ last.size \in MacLookedAt) => MacMaskOnlyRemoves

\* C28: the three files of one density are all-or-nothing: a call of
\* process_android_icon that returns False has written or changed none of
\* the three files of that density.
C28_AllOrNothing ==
    (TransformDone /\ ~last.ret) => last.written = <<>>

----------------------------------------------------------------------------
(* Claims about check_dependencies *)

\* the numbers between the dots of a version
RECURSIVE Components(_)
Components(v) ==
    IF IndexOf(v, ".") = 0 THEN <<ParseInt(v)>>
    ELSE <<ParseInt(SplitFirst(v, "."))>> \o Components(SubSeq(v, IndexOf(v, ".") + 1, Len(v)))

\* a < b component by component
RECURSIVE SeqLess(_, _)
SeqLess(a, b) ==
    IF Len(b) = 0 THEN FALSE
    ELSE IF Len(a) = 0 THEN TRUE
    ELSE IF a[1] # b[1] THEN a[1] < b[1]
    ELSE SeqLess(Tail(a), Tail(b))

\* the required packages that are not installed or are older than required
NumericallyMissing ==
    {r \in last.required :
        \/ last.installed[r.name] = None
        \/ SeqLess(Components(last.installed[r.name]), Components(r.min))}

\* C29: check_dependencies treats a required package as missing exactly
\* when it is not installed or its version is lower than the minimum,
\* compared number by number; when nothing is missing it runs no installer.
C29_NumericVersionOrder ==
    (pc = "checked" /\ last.op = "check_dependencies") =>
        /\ last.missing = NumericallyMissing
        /\ last.missing = {} => last.calls = 0

----------------------------------------------------------------------------
(* Claims about main of the standalone script *)

\* the manifest fetch of the run failed
FetchFailed == \E k \in 1..Len(main.log) : main.log[k].event = "no manifest"

\* C30: in the script's main a failed manifest fetch never ends in an
\* unhandled exception: the run exits with status 1 or goes on to the
\* requested platforms.
C30_FailedFetchHandled == FetchFailed => pc # "raised"

====
